---- MODULE Spec2Model ----
(***************************************************************************)
(* ErgoDox firmware and host tool: a verification development.            *)
(*                                                                         *)
(* The module holds several specifications over one set of variables:     *)
(*   SpecReport  build_report as a pure function of (snapshot, layer)     *)
(*   SpecDeb     the debouncer under arbitrary raw snapshots              *)
(*   SpecPair    two debouncers fed snapshots that agree on one cell      *)
(*   SpecUsb     the USB stack under arbitrary calls and hardware flags   *)
(*   SpecFw      the firmware main loop: init, poll, scan, report         *)
(*   SpecMcp     the MCP23018 driver on a bus with faults                 *)
(*   SpecScan    one matrix scan of both halves                           *)
(*   SpecHex     parse_hex on a HEX text, then flatten_segments           *)
(*   SpecFlat    flatten_segments on a segment list                       *)
(*   SpecPage    build_page_buffer on an address and a chunk              *)
(*   SpecFlash   flash: size check, page loop, reboot                     *)
(*   SpecCli     the host tool's main: detect, reboot, poll, flash        *)
(*   SpecLayer   resolve_layer on a snapshot                              *)
(*   SpecLookup  lookup on a layer and a cell                             *)
(*   SpecKeycode the classification methods of Keycode on a byte          *)
(*   SpecTwi     the MCP23018 driver on the TWI bus, event by event       *)
(*   SpecHalf    the main loop's left half: reinit, scan, debounce, report*)
(*   SpecLive    the firmware main loop with its steps always taken       *)
(*   SpecTool    the host tool's main from the reading of the file on     *)
(* Every specification leaves the variables of the others at their        *)
(* initial values.                                                         *)
(***************************************************************************)
EXTENDS Integers, Sequences, FiniteSets, TLC

VARIABLES
    \* ---- build_report as a function (SpecReport)
    keys,        \* debounced snapshot handed to build_report
    layer,       \* layer handed to build_report
    report,      \* the report it returned
    rpc,         \* "in" before the call, "out" after it
    \* ---- Debouncer (SpecDeb, SpecPair, SpecFw, SpecHalf, SpecLive)
    state,       \* Debouncer.state    [cell -> BOOLEAN], TRUE = pressed
    counters,    \* Debouncer.counters [cell -> u8]
    state2,      \* the second debouncer of SpecPair
    counters2,
    watch,       \* SpecPair: the cell on which the two input sequences agree
    \* ---- history of the raw input, per cell that receives presses (ghost)
    lastp,       \* raw reading (pressed sense) of the last update call
    before,      \* committed state before the last update call
    base,        \* committed state before the current streak of equal readings
    len,         \* length of that streak (0 = no call yet), capped at MaxStreak
    \* ---- UsbKeyboard and the firmware main loop (SpecUsb, SpecFw, SpecLive)
    pc,          \* position of the firmware: "off", "init", "idle", "poll",
                 \* "scan", "report", "hung" (spinning on a flag that never
                 \* sets), "bootloader" (jumped to 0x7E00)
    configured,  \* UsbKeyboard.configured
    last_report, \* UsbKeyboard.last_report
    tx,          \* the report most recently written to endpoint 1, or NoReport (ghost)
    call,        \* the most recent call on the UsbKeyboard and what it did (ghost)
    txState,     \* SpecFw: committed snapshot the last transmitted report was built from (ghost)
    ripe,        \* SpecFw: cells that completed 5 opposing scans since the last transmission (ghost)
    \* ---- Mcp23018 driver and matrix scan (SpecMcp, SpecScan, SpecHalf)
    mpc,         \* "off", "boot" before init, "run" after it
    mcp,         \* the Mcp23018: [addr, initialized, errors]
    dev,         \* the address at which an expander answers on the bus, or NoDev
    devCfg,      \* the expander has been configured since it was connected (ghost)
    mcall,       \* the most recent call on the driver and what it did (ghost)
    streak,      \* erroring scan_column calls since the last successful read or
                 \* (re)initialisation; in SpecHalf, the loop iterations begun
                 \* with the driver uninitialized since it last was initialized,
                 \* capped at MaxOffline (ghost)
    late,        \* no expander was on the bus when init ran at boot, and the
                 \* driver has not been initialized since (ghost)
    closed,      \* the key switches that are closed
    snapshot,    \* the snapshot the last matrix scan returned
    \* ---- host tool: Intel HEX parser and flatten (SpecHex, SpecFlat, SpecTool)
    hpc,         \* "off", "in" or "segments" before the call, "parsed", "flat"
    hin,         \* the input: the lines of a HEX text, or a segment list
    hout,        \* what parse_hex returned
    flat,        \* what flatten_segments returned
    \* ---- host tool: HalfKay flashing (SpecPage, SpecFlash, SpecCli, SpecTool)
    fpc,         \* position of the host tool: "off"; "in", "out" around
                 \* build_page_buffer; "read", "parse", "flatten", "main",
                 \* "reboot", "poll", "flash", "loop", "done" in main and
                 \* flash; "panicked"
    fin,         \* the input: [address, data] of build_page_buffer, or
                 \* [base_address, data] of flash
    fk,          \* flash: the index of the next page of the loop
    xfers,       \* the control transfers sent to the HalfKay device, in order
    fres,        \* what build_page_buffer or flash returned, or the exit of main
    cli,         \* main: the detect calls made and the reboot request (ghost)
    \* ---- the driver on the TWI registers (SpecTwi)
    bus,         \* the bus operations of the last driver call, and the last
                 \* operation before it (ghost)
    \* ---- calls of the keymap functions (SpecLayer, SpecLookup, SpecKeycode)
    kpc,         \* "off", "in" before the call, "out" after it
    kin,         \* the argument
    kout         \* the result

reportVars == << keys, layer, report, rpc >>
debVars    == << state, counters >>
pairVars   == << state2, counters2, watch >>
histVars   == << lastp, before, base, len >>
usbVars    == << pc, configured, last_report, tx, call >>
fwVars     == << txState, ripe >>
firmwareVars == << reportVars, debVars, pairVars, histVars, usbVars, fwVars >>
mcpVars    == << mpc, mcp, dev, devCfg, mcall, streak, late, closed, snapshot >>
\* the variables of the specifications other than the firmware's USB side
hexVars    == << hpc, hin, hout, flat >>
flashVars  == << fpc, fin, fk, xfers, fres, cli >>
twiVars    == << bus >>
keymapVars == << kpc, kin, kout >>
otherVars  == << mcpVars, hexVars, flashVars, twiVars, keymapVars >>
\* the variables a specification of the driver, or of the host tool, leaves alone
notMcpVars == << firmwareVars, hexVars, flashVars, twiVars, keymapVars >>
notHexVars == << firmwareVars, mcpVars, flashVars, twiVars, keymapVars >>
notFlashVars == << firmwareVars, mcpVars, hexVars, twiVars, keymapVars >>
notTwiVars == << firmwareVars, hexVars, flashVars, keymapVars >>
notKeymapVars == << firmwareVars, mcpVars, hexVars, flashVars, twiVars >>
vars       == << keys, layer, report, rpc, state, counters, state2, counters2,
                 watch, lastp, before, base, len, pc, configured, last_report,
                 tx, call, txState, ripe, mpc, mcp, dev, devCfg, mcall, streak,
                 late, closed, snapshot, hpc, hin, hout, flat,
                 fpc, fin, fk, xfers, fres, cli, bus, kpc, kin, kout >>

----------------------------------------------------------------------------
(* Bounds of the model.                                                    *)

\* how many cells of ReportCellOrder may be pressed in a build_report input
NumReportCells == 11
\* how many cells of DebCellOrder receive raw presses in SpecDeb
NumDebCells == 2
\* cap of the streak-length history
MaxStreak == 7
\* how many cells of FwCellOrder receive raw presses in SpecFw
NumFwCells == 1
\* how many cells of FwCellOrder are pressed in the reports handed to
\* send_report in SpecUsb
NumUsbCells == 1

----------------------------------------------------------------------------
(* Matrix geometry: src/firmware/src/matrix.rs                             *)

ROWS == 6
COLS_PER_HALF == 7
COLS == COLS_PER_HALF * 2

Cells == (0 .. ROWS - 1) \X (0 .. COLS - 1)

Min(a, b) == IF a <= b THEN a ELSE b

\* the cells of a cell list's first n entries
FirstCells(order, n) == { order[i] : i \in 1 .. Min(n, Len(order)) }

\* the debounced snapshot whose pressed cells are exactly S
SnapshotOf(S) == [ cell \in Cells |-> cell \in S ]

----------------------------------------------------------------------------
(* Keycodes: src/firmware/src/keymap.rs                                    *)

KC_TRANS == 0
KC_NONE == 1

\* (first, a faulty variant with no upper end)
is_modifier_mutNoUpperEnd(v) == v >= 224

is_modifier(v) == v >= 224 /\ v <= 231

modifier_bit(v) == IF is_modifier(v) THEN 2 ^ (v - 224) ELSE 0

is_layer(v) == v >= 240 /\ v <= 255

layer_number(v) == v - 240

is_transparent(v) == v = 0

NUM_LAYERS == 2

\* LAYERS[layer + 1][row + 1][col + 1], the keycode bytes of the table
LAYERS ==
<<
  <<
     <<  46,  30,  31,  32,  33,  34,  41,  45,  35,  36,  37,  38,  39,   0 >>,
     <<  43,  20,  26,   8,  21,  23,  47,  48,  28,  24,  12,  18,  19,  49 >>,
     << 224,   4,  22,   7,   9,  10,   0,   0,  11,  13,  14,  15,  51,  52 >>,
     << 100,  29,  27,   6,  25,   5, 241, 241,  17,  16,  54,  55,  56, 229 >>,
     <<  53, 226, 227,   0,   0,   0,   0,   0,   0,   0,   0, 230,   0,   0 >>,
     <<   0,   0,  40,  44,   0,   0,   0,   0,   0,   0, 229,  42,   0,   0 >>
  >>,
  <<
     <<   0,  58,  59,  60,  61,  62,   0,   0,  63,  64,  65,  66,  67,   0 >>,
     <<   0,   0,   0,   0,   0,   0,  68,  69,   0,   0,   0,   0,   0,   0 >>,
     <<   0,   0,   0,   0,   0,   0,   0,   0,  80,  81,  82,  79,   0,   0 >>,
     <<   0,   0,   0,   0,   0,   0,   0,   0,   0,   0,   0,   0,   0,   0 >>,
     <<   0,   0,   0,   0,   0,   0,   0,   0,   0,   0,   0,   0,   0,   0 >>,
     <<   0,   0,   0,   0,   0,   0,   0,   0,   0,   0,   0,   0,   0,   0 >>
  >>
>>

KeyAt(l, row, col) == LAYERS[l + 1][row + 1][col + 1]

\* the cell the nested loops "for row in 0..ROWS, for col in 0..COLS" visit
\* as their idx-th (from 0)
CellOf(idx) == << idx \div COLS, idx % COLS >>

\* the number of the first pressed cell the loops visit from their idx-th
\* cell on, ROWS * COLS if there is none: the loops of resolve_layer and
\* build_report do nothing for a cell that is not pressed
NextPressed(ks, idx) ==
    IF \E i \in idx .. ROWS * COLS - 1 : ks[CellOf(i)]
    THEN CHOOSE i \in idx .. ROWS * COLS - 1 :
             ks[CellOf(i)] /\ \A j \in idx .. i - 1 : ~ks[CellOf(j)]
    ELSE ROWS * COLS

RECURSIVE resolve_from(_, _, _)
\* the loops of resolve_layer from their idx-th cell on
resolve_from(ks, idx, active_layer) ==
    LET n == NextPressed(ks, idx)
    IN  IF n >= ROWS * COLS THEN active_layer
        ELSE LET kc  == KeyAt(0, CellOf(n)[1], CellOf(n)[2])
                 hit == /\ is_layer(kc)
                        /\ layer_number(kc) > active_layer
                        /\ layer_number(kc) < NUM_LAYERS
             IN  resolve_from(ks, n + 1,
                              IF hit THEN layer_number(kc) ELSE active_layer)

\* (first, a faulty variant that sees the layer keys of the left half only)
resolve_layer_mutLeftHalf(ks) ==
    resolve_from([ cell \in Cells |-> ks[cell] /\ cell[2] < COLS_PER_HALF ], 0, 0)

resolve_layer(ks) == resolve_from(ks, 0, 0)

\* (first, a faulty variant that does not fall through)
lookup_mutNoFallThrough(l, row, col) == KeyAt(l, row, col)

RECURSIVE lookup(_, _, _)
lookup(l, row, col) ==
    LET kc == KeyAt(l, row, col)
    IN  IF ~is_transparent(kc) \/ l = 0 THEN kc ELSE lookup(l - 1, row, col)

----------------------------------------------------------------------------
(* HID report builder: src/firmware/src/hid.rs                             *)

RECURSIVE BitOrFrom(_, _, _)
\* a | b on the bits from 2^k upward
BitOrFrom(a, b, k) ==
    IF k > 7 THEN 0
    ELSE (IF (a \div (2 ^ k)) % 2 = 1 \/ (b \div (2 ^ k)) % 2 = 1
          THEN 2 ^ k ELSE 0) + BitOrFrom(a, b, k + 1)

BitOr(a, b) == BitOrFrom(a, b, 0)

KeyboardReport_empty ==
    [ modifiers |-> 0, reserved |-> 0, keys |-> << 0, 0, 0, 0, 0, 0 >> ]

\* the body of build_report's inner loop for one pressed cell with keycode kc;
\* acc = [report, key_idx]
\* (first, three faulty variants of build_step, against which the claims are tried)
build_step_mutNoModifierCheck(acc, kc) ==
    IF is_transparent(kc) \/ is_layer(kc) \/ kc = KC_NONE THEN acc
    ELSE IF acc.key_idx < 6
    THEN [ report  |-> [ acc.report EXCEPT !.keys[acc.key_idx + 1] = kc ],
           key_idx |-> acc.key_idx + 1 ]
    ELSE acc

build_step_mutNoSkip(acc, kc) ==
    IF is_modifier(kc)
    THEN [ acc EXCEPT !.report.modifiers = BitOr(@, modifier_bit(kc)) ]
    ELSE IF acc.key_idx < 6
    THEN [ report  |-> [ acc.report EXCEPT !.keys[acc.key_idx + 1] = kc ],
           key_idx |-> acc.key_idx + 1 ]
    ELSE acc

build_step_mutModifierNeedsSlot(acc, kc) ==
    IF is_transparent(kc) \/ is_layer(kc) \/ kc = KC_NONE THEN acc
    ELSE IF acc.key_idx < 6
    THEN IF is_modifier(kc)
         THEN [ acc EXCEPT !.report.modifiers = BitOr(@, modifier_bit(kc)) ]
         ELSE [ report  |-> [ acc.report EXCEPT !.keys[acc.key_idx + 1] = kc ],
                key_idx |-> acc.key_idx + 1 ]
    ELSE acc

build_step(acc, kc) ==
    IF is_transparent(kc) \/ is_layer(kc) \/ kc = KC_NONE THEN acc
    ELSE IF is_modifier(kc)
    THEN [ acc EXCEPT !.report.modifiers = BitOr(@, modifier_bit(kc)) ]
    ELSE IF acc.key_idx < 6
    THEN [ report  |-> [ acc.report EXCEPT !.keys[acc.key_idx + 1] = kc ],
           key_idx |-> acc.key_idx + 1 ]
    ELSE acc

RECURSIVE build_from(_, _, _, _)
\* build_report's loops from their idx-th cell on
build_from(ks, l, idx, acc) ==
    LET n == NextPressed(ks, idx)
    IN  IF n >= ROWS * COLS THEN acc
        ELSE build_from(ks, l, n + 1,
                        build_step(acc, lookup(l, CellOf(n)[1], CellOf(n)[2])))

\* the accumulator build_report ends with: the report and key_idx
build_acc(ks, l) ==
    build_from(ks, l, 0, [ report |-> KeyboardReport_empty, key_idx |-> 0 ])

build_report(ks, l) == build_acc(ks, l).report

----------------------------------------------------------------------------
(* Debouncer: src/firmware/src/debounce.rs                                 *)

DEBOUNCE_THRESHOLD == 5

Debouncer_new ==
    [ state    |-> [ cell \in Cells |-> FALSE ],
      counters |-> [ cell \in Cells |-> 0 ] ]

\* one cell of Debouncer::update; pressed = !raw_state[row][col]
\* (first, three faulty variants of update_cell)
update_cell_mutThreshold(s, c, pressed) ==
    IF pressed = s THEN [ state |-> s, counter |-> 0 ]
    ELSE IF c + 1 >= DEBOUNCE_THRESHOLD - 1
         THEN [ state |-> pressed, counter |-> 0 ]
         ELSE [ state |-> s, counter |-> c + 1 ]

update_cell_mutNoReset(s, c, pressed) ==
    IF pressed = s THEN [ state |-> s, counter |-> c ]
    ELSE IF c + 1 >= DEBOUNCE_THRESHOLD
         THEN [ state |-> pressed, counter |-> 0 ]
         ELSE [ state |-> s, counter |-> c + 1 ]

update_cell_mutNoDebounce(s, c, pressed) == [ state |-> pressed, counter |-> 0 ]

\* (and one that keeps the count when it commits the new state)
update_cell_mutKeepCount(s, c, pressed) ==
    IF pressed = s THEN [ state |-> s, counter |-> 0 ]
    ELSE [ state |-> IF c + 1 >= DEBOUNCE_THRESHOLD THEN pressed ELSE s,
           counter |-> c + 1 ]

update_cell(s, c, pressed) ==
    IF pressed = s THEN [ state |-> s, counter |-> 0 ]
    ELSE IF c + 1 >= DEBOUNCE_THRESHOLD
         THEN [ state |-> pressed, counter |-> 0 ]
         ELSE [ state |-> s, counter |-> c + 1 ]

\* a faulty variant of update with one counter shared by all cells instead of one per cell
update_mutSharedCounter(d, raw_state) ==
    LET shared == CHOOSE m \in { d.counters[cell] : cell \in Cells } :
                      \A cell \in Cells : d.counters[cell] <= m
        one(cell) == update_cell(d.state[cell], shared, ~raw_state[cell])
    IN  [ state    |-> [ cell \in Cells |-> one(cell).state ],
          counters |-> [ cell \in Cells |-> one(cell).counter ] ]

\* Debouncer::update: d = [state, counters], raw_state active-low
update(d, raw_state) ==
    LET one(cell) == update_cell(d.state[cell], d.counters[cell], ~raw_state[cell])
    IN  [ state    |-> [ cell \in Cells |-> one(cell).state ],
          counters |-> [ cell \in Cells |-> one(cell).counter ] ]

\* raw snapshots (active-low) in which only the cells of S may read pressed
RawSnapshots(S) ==
    { [ cell \in Cells |-> ~(cell \in P) ] : P \in SUBSET S }

----------------------------------------------------------------------------
(* USB device stack: src/firmware/src/hid.rs                               *)

EP0_SIZE == 64

\* the timeout counter send_report starts its wait for RWAL with
RWAL_TIMEOUT == 65535

\* the value standing for "no report was transmitted yet"
NoReport == [ modifiers |-> -1, reserved |-> -1, keys |-> << >> ]
\* the value standing for "no SETUP packet was received"
NoPacket ==
    [ bmRequestType |-> -1, bRequest |-> -1, wValueL |-> -1, wValueH |-> -1,
      wLength |-> -1 ]

\* lengths of the descriptors handle_setup can send
DescLen(d) ==
    CASE d = "DEVICE_DESCRIPTOR"     -> 18
      [] d = "CONFIG_DESCRIPTOR"     -> 34
      [] d = "STRING_DESC_0"         -> 4
      [] d = "STRING_DESC_1"         -> 16
      [] d = "STRING_DESC_2"         -> 18
      [] d = "HID_REPORT_DESCRIPTOR" -> 64

UsbKeyboard_new ==
    [ configured |-> FALSE, last_report |-> KeyboardReport_empty ]

\* UsbKeyboard::init; plock = the PLL lock flag eventually sets.
\* end = "return", or "hung" when the wait for PLL lock never ends
init(u, plock) ==
    IF plock
    THEN [ u |-> [ u EXCEPT !.configured = FALSE ], end |-> "return" ]
    ELSE [ u |-> u, end |-> "hung" ]

RECURSIVE chunks_from(_, _)
\* the sizes of the packets send_descriptor's loop writes from offset sent on
chunks_from(sent, length) ==
    IF sent < length
    THEN LET chunk_end == Min(sent + EP0_SIZE, length)
         IN  << chunk_end - sent >> \o chunks_from(chunk_end, length)
    ELSE << >>

\* UsbKeyboard::send_descriptor; txini / rxouti = the flag eventually sets.
\* The response names the descriptor and the packet sizes written.
send_descriptor(desc, max_length, txini, rxouti) ==
    LET length == Min(DescLen(desc), max_length)
    IN  IF length > 0 /\ ~txini
        THEN [ resp |-> "none", data |-> << >>, end |-> "hung" ]
        ELSE [ resp |-> desc, data |-> chunks_from(0, length),
               end  |-> IF rxouti THEN "return" ELSE "hung" ]

\* UsbKeyboard::stall
stall == [ resp |-> "stall", data |-> << >>, end |-> "return" ]

\* the arm of handle_setup's match for a request no other arm takes
\* (first, a faulty variant that answers with a zero-length packet)
unknown_request_mutZlp == [ resp |-> "zlp", data |-> << >>, end |-> "return" ]

unknown_request == stall

\* UsbKeyboard::handle_setup on the SETUP packet p with configured = cfg:
\* the new configured flag, the response on EP0 and how the handler ends
handle_setup(cfg, p, txini, rxouti) ==
    LET t == p.bmRequestType
        r == p.bRequest
        keep(x) == [ configured |-> cfg, resp |-> x.resp, data |-> x.data,
                     end |-> x.end ]
    IN  CASE t = 128 /\ r = 6 ->
               keep(CASE p.wValueH = 1 ->
                           send_descriptor("DEVICE_DESCRIPTOR", p.wLength, txini, rxouti)
                      [] p.wValueH = 2 ->
                           send_descriptor("CONFIG_DESCRIPTOR", p.wLength, txini, rxouti)
                      [] p.wValueH = 3 ->
                           (CASE p.wValueL = 0 ->
                                   send_descriptor("STRING_DESC_0", p.wLength, txini, rxouti)
                              [] p.wValueL = 1 ->
                                   send_descriptor("STRING_DESC_1", p.wLength, txini, rxouti)
                              [] p.wValueL = 2 ->
                                   send_descriptor("STRING_DESC_2", p.wLength, txini, rxouti)
                              [] OTHER -> stall)
                      [] OTHER -> stall)
          [] t = 0 /\ r = 5 ->
               [ configured |-> cfg, resp |-> "zlp", data |-> << >>,
                 end |-> IF txini THEN "return" ELSE "hung" ]
          [] t = 0 /\ r = 9 ->
               [ configured |-> TRUE, resp |-> "zlp", data |-> << >>,
                 end |-> "return" ]
          [] t = 128 /\ r = 8 ->
               IF txini
               THEN [ configured |-> cfg, resp |-> "byte",
                      data |-> << IF cfg THEN 1 ELSE 0 >>, end |-> "return" ]
               ELSE [ configured |-> cfg, resp |-> "none", data |-> << >>,
                      end |-> "hung" ]
          [] t = 129 /\ r = 6 ->
               keep(CASE p.wValueH = 34 ->
                           send_descriptor("HID_REPORT_DESCRIPTOR", p.wLength, txini, rxouti)
                      [] OTHER -> stall)
          [] t = 33 /\ r = 10 ->
               [ configured |-> cfg, resp |-> "zlp", data |-> << >>,
                 end |-> "return" ]
          [] t = 33 /\ r = 11 ->
               [ configured |-> cfg, resp |-> "zlp", data |-> << >>,
                 end |-> "return" ]
          [] t = 64 /\ r = 255 ->
               [ configured |-> cfg, resp |-> "zlp", data |-> << >>,
                 end |-> "bootloader" ]
          [] OTHER -> keep(unknown_request)

\* UsbKeyboard::poll; eorsti / rxstpi = the flag is set when poll reads it,
\* p = the SETUP packet in the EP0 bank when rxstpi is set.
\* cfg0 = the configured flag when the SETUP handling begins
\* (first, a faulty variant that handles the SETUP packet before the reset)
poll_mutSetupBeforeReset(u, eorsti, rxstpi, p, txini, rxouti) ==
    LET h    == handle_setup(u.configured, p, txini, rxouti)
        cfg1 == IF rxstpi THEN h.configured ELSE u.configured
        cfg2 == IF eorsti THEN FALSE ELSE cfg1
    IN  IF rxstpi
        THEN [ u |-> [ u EXCEPT !.configured = cfg2 ], cfg0 |-> u.configured,
               resp |-> h.resp, data |-> h.data, end |-> h.end ]
        ELSE [ u |-> [ u EXCEPT !.configured = cfg2 ], cfg0 |-> u.configured,
               resp |-> "none", data |-> << >>, end |-> "return" ]

poll(u, eorsti, rxstpi, p, txini, rxouti) ==
    LET cfg0 == IF eorsti THEN FALSE ELSE u.configured
        h    == handle_setup(cfg0, p, txini, rxouti)
    IN  IF rxstpi
        THEN [ u |-> [ u EXCEPT !.configured = h.configured ], cfg0 |-> cfg0,
               resp |-> h.resp, data |-> h.data, end |-> h.end ]
        ELSE [ u |-> [ u EXCEPT !.configured = cfg0 ], cfg0 |-> cfg0,
               resp |-> "none", data |-> << >>, end |-> "return" ]

\* UsbKeyboard::send_report; wait = how many reads of RWAL find it clear
\* before one finds it set. wrote = the report went to endpoint 1
\* (first, a faulty variant that caches the report when the wait times out)
send_report_mutCacheOnTimeout(u, rep, wait) ==
    IF ~u.configured \/ rep = u.last_report
    THEN [ u |-> u, wrote |-> FALSE ]
    ELSE IF wait >= RWAL_TIMEOUT
    THEN [ u |-> [ u EXCEPT !.last_report = rep ], wrote |-> FALSE ]
    ELSE [ u |-> [ u EXCEPT !.last_report = rep ], wrote |-> TRUE ]

\* (and one that writes the report but does not cache it)
send_report_mutNoCache(u, rep, wait) ==
    IF ~u.configured \/ rep = u.last_report
    THEN [ u |-> u, wrote |-> FALSE ]
    ELSE [ u |-> u, wrote |-> wait < RWAL_TIMEOUT ]

send_report(u, rep, wait) ==
    IF ~u.configured \/ rep = u.last_report
    THEN [ u |-> u, wrote |-> FALSE ]
    ELSE IF wait >= RWAL_TIMEOUT
    THEN [ u |-> u, wrote |-> FALSE ]
    ELSE [ u |-> [ u EXCEPT !.last_report = rep ], wrote |-> TRUE ]

----------------------------------------------------------------------------
(* MCP23018 driver.  src/firmware/src/i2c.rs                               *)

MCP23018_BASE_ADDR == 32

\* the addresses the expander can be strapped to
McpAddrs == MCP23018_BASE_ADDR .. MCP23018_BASE_ADDR + 7

\* the value of dev when no expander answers on the bus
NoDev == MCP23018_BASE_ADDR - 1

\* mark_error's threshold
MCP_MAX_ERRORS == 10

Mcp23018_new == [ addr |-> MCP23018_BASE_ADDR, initialized |-> FALSE, errors |-> 0 ]

\* The I2C steps of a transaction with the device at addr, when an expander
\* answers at d (or none does) and the bus fault hits step fault (0 = no
\* fault): the step that returns Err, or 0 when all succeed.  Step 1 is the
\* START, step 2 the SLA+W, which only the addressed device acknowledges.
FirstFail(addr, d, fault) ==
    IF d = addr THEN fault
    ELSE IF fault = 1 THEN 1 ELSE 2

\* write_register: START, SLA+W, register, value (4 steps), then STOP
write_register(addr, d, fault) ==
    LET f == FirstFail(addr, d, fault)
    IN  [ ok |-> f = 0, steps |-> IF f = 0 THEN 4 ELSE f ]

\* read_register: START, SLA+W, register, repeated START, SLA+R, read (6 steps)
read_register(addr, d, fault, val) ==
    LET f == FirstFail(addr, d, fault)
    IN  [ ok |-> f = 0, val |-> val, steps |-> IF f = 0 THEN 6 ELSE f ]

\* probe: START and SLA+W, then STOP
probe(addr, d, fault) == FirstFail(addr, d, fault) = 0

\* configure: four write_register calls, the first failure returns Err;
\* fault = the index of the register write that a bus fault hits (0 = none).
\* written = how many of the four registers were written
configure(addr, d, fault) ==
    [ ok      |-> d = addr /\ fault = 0,
      written |-> IF d # addr THEN 0 ELSE IF fault = 0 THEN 4 ELSE fault - 1 ]

RECURSIVE init_from(_, _, _, _, _)
\* the loop of Mcp23018::init from candidate offset on
init_from(m, offset, d, pfault, cfault) ==
    IF offset >= 8 THEN [ m |-> m, found |-> NoDev, written |-> 0 ]
    ELSE LET candidate == MCP23018_BASE_ADDR + offset
             m1        == [ m EXCEPT !.addr = candidate ]
             c         == configure(candidate, d, cfault)
         IN  IF probe(candidate, d, pfault)
             THEN IF c.ok
                  THEN [ m |-> [ m1 EXCEPT !.initialized = TRUE ],
                         found |-> candidate, written |-> c.written ]
                  ELSE LET r == init_from(m1, offset + 1, d, pfault, cfault)
                       IN  [ r EXCEPT !.written = c.written ]
             ELSE init_from(m1, offset + 1, d, pfault, cfault)

\* Mcp23018::init; found = the address returned, NoDev for None
Mcp23018_init(m, d, pfault, cfault) == init_from(m, 0, d, pfault, cfault)

\* (first, a faulty variant that keeps the counter and probes nothing)
try_reinit_mutNoOp(m, d, cfault) == [ m |-> m, written |-> 0 ]

\* (and one that configures but keeps the error counter)
try_reinit_mutKeepErrors(m, d, cfault) ==
    IF ~m.initialized
    THEN LET c == configure(m.addr, d, cfault)
         IN  [ m |-> [ m EXCEPT !.initialized = c.ok ], written |-> c.written ]
    ELSE [ m |-> m, written |-> 0 ]

\* Mcp23018::try_reinit
try_reinit(m, d, cfault) ==
    IF ~m.initialized
    THEN LET c == configure(m.addr, d, cfault)
         IN  [ m |-> [ m EXCEPT !.errors = 0, !.initialized = c.ok ],
               written |-> c.written ]
    ELSE [ m |-> m, written |-> 0 ]

\* (first, a faulty variant that gives up after the first error)
mark_error_mutFirstError(m) ==
    [ m EXCEPT !.errors = Min(m.errors + 1, 255), !.initialized = FALSE ]

\* Mcp23018::mark_error
mark_error(m) ==
    LET e == Min(m.errors + 1, 255)
    IN  [ m EXCEPT !.errors = e,
                   !.initialized = IF e >= MCP_MAX_ERRORS THEN FALSE ELSE m.initialized ]

\* (first, a faulty variant that scans whether or not the driver is
\* initialized)
scan_column_mutNoInitCheck(m, col, d, wfault, rfault, val) ==
    LET w == write_register(m.addr, d, wfault)
        r == read_register(m.addr, d, rfault, val)
    IN  IF ~w.ok
        THEN [ m |-> mark_error(m), ret |-> 255, steps |-> w.steps ]
        ELSE IF r.ok
        THEN [ m |-> [ m EXCEPT !.errors = 0 ], ret |-> r.val,
               steps |-> w.steps + r.steps ]
        ELSE [ m |-> mark_error(m), ret |-> 255, steps |-> w.steps + r.steps ]

\* (first, a faulty variant that returns the stale read value on an error)
scan_column_mutStaleValue(m, col, d, wfault, rfault, val) ==
    IF ~m.initialized THEN [ m |-> m, ret |-> 255, steps |-> 0 ]
    ELSE LET w == write_register(m.addr, d, wfault)
             r == read_register(m.addr, d, rfault, val)
         IN  IF ~w.ok
             THEN [ m |-> mark_error(m), ret |-> val, steps |-> w.steps ]
             ELSE IF r.ok
             THEN [ m |-> [ m EXCEPT !.errors = 0 ], ret |-> r.val,
                    steps |-> w.steps + r.steps ]
             ELSE [ m |-> mark_error(m), ret |-> val, steps |-> w.steps + r.steps ]

\* Mcp23018::scan_column; val = what port B reads with column col driven low.
\* ret = the byte returned, steps = the I2C steps issued
scan_column(m, col, d, wfault, rfault, val) ==
    IF ~m.initialized THEN [ m |-> m, ret |-> 255, steps |-> 0 ]
    ELSE LET w == write_register(m.addr, d, wfault)
             r == read_register(m.addr, d, rfault, val)
         IN  IF ~w.ok
             THEN [ m |-> mark_error(m), ret |-> 255, steps |-> w.steps ]
             ELSE IF r.ok
             THEN [ m |-> [ m EXCEPT !.errors = 0 ], ret |-> r.val,
                    steps |-> w.steps + r.steps ]
             ELSE [ m |-> mark_error(m), ret |-> 255, steps |-> w.steps + r.steps ]

----------------------------------------------------------------------------
(* Matrix scan.  src/firmware/src/matrix.rs                                *)

\* bit r of the byte v
TestBit(v, r) == (v \div (2 ^ r)) % 2

RECURSIVE PortFrom(_, _, _)
\* the byte of an 8-pin input port with pull-ups whose pins r .. 7 are read:
\* pin r reads 0 when r is a matrix row and the switch at (r, col) is closed
\* while column col is driven low
PortFrom(S, col, r) ==
    IF r > 7 THEN 0
    ELSE (IF r < ROWS /\ << r, col >> \in S THEN 0 ELSE 2 ^ r)
         + PortFrom(S, col, r + 1)

\* port B of a configured expander with column col driven low
GpioB(S, col) == PortFrom(S, col, 0)

\* drive_pin: the matrix column that drive pin index pulls low (six pins)
drive_pin(index) == COLS_PER_HALF + index

\* read_pins with drive pin index low: 7 bits, bit 6 is the unused PB6
read_pins(S, index) == PortFrom(S, drive_pin(index), 0) % 128

RECURSIVE scan_left(_, _, _, _, _, _)
\* the left-half loop of scan from column col on; bad = the columns whose
\* column write is hit by a bus fault; val = port B's reading per column.
\* reads = the bytes scan_column returned so far
scan_left(m, col, d, bad, val, reads) ==
    IF col >= COLS_PER_HALF THEN [ m |-> m, reads |-> reads ]
    ELSE LET r == scan_column(m, col, d, IF col \in bad THEN 3 ELSE 0, 0, val[col])
         IN  scan_left(r.m, col + 1, d, bad, val, reads @@ (col :> r.ret))

\* scan: the snapshot (TRUE = not pressed) and the driver after it
scan(S, m, d, bad, val) ==
    LET l == scan_left(m, 0, d, bad, val, << >>)
    IN  [ m |-> l.m,
          state |-> [ cell \in Cells |->
                        IF cell[2] < COLS_PER_HALF
                        THEN TestBit(l.reads[cell[2]], cell[1]) # 0
                        ELSE IF cell[2] - COLS_PER_HALF < ROWS
                        THEN TestBit(read_pins(S, cell[2] - COLS_PER_HALF), cell[1]) # 0
                        ELSE TRUE ] ]

----------------------------------------------------------------------------
(* Intel HEX parser and flatten of the host tool.                          *)
(* src/ergodox-cli/src/hex.rs                                              *)

\* A line of the input after trim: blank, or text that does or does not
\* start with ':' followed by characters; a character is its hexadecimal
\* digit value 0 .. 15, or NotHex for any other character.
NotHex == 16

\* A u32 is kept as two 16-bit halves, [hi, lo], so that addresses up to
\* 0xFFFFFFFF and the carry out of bit 31 are exact
U16 == 2 ^ 16

\* the u32 of a number below 2^31
u32(n) == [ hi |-> n \div U16, lo |-> n % U16 ]

\* a + n without wrapping: hi = U16 says the sum left the u32 range
add_u32(a, n) ==
    LET l == a.lo + n IN [ hi |-> a.hi + (l \div U16), lo |-> l % U16 ]

\* the u32 a sum wraps to
wrap_u32(a) == [ a EXCEPT !.hi = @ % U16 ]

\* a - b, wrapping
sub_u32(a, b) ==
    LET l == a.lo - b.lo
        borrow == IF l < 0 THEN 1 ELSE 0
    IN  [ hi |-> (a.hi - b.hi - borrow) % U16, lo |-> l % U16 ]

le_u32(a, b) == a.hi < b.hi \/ (a.hi = b.hi /\ a.lo <= b.lo)

\* as usize (sizes of the model stay below 2^31)
as_usize(a) == a.hi * U16 + a.lo


RECURSIVE SumBytes(_)
\* the sum of a byte sequence
SumBytes(bytes) ==
    IF bytes = << >> THEN 0 ELSE bytes[1] + SumBytes(Tail(bytes))

\* decode_hex_bytes: pairs of hexadecimal digits to bytes; fails on an odd
\* number of characters and on a character that is no hexadecimal digit
decode_hex_bytes(digits) ==
    IF Len(digits) % 2 # 0 THEN [ ok |-> FALSE, bytes |-> << >> ]
    ELSE IF \E i \in 1 .. Len(digits) : digits[i] >= NotHex
    THEN [ ok |-> FALSE, bytes |-> << >> ]
    ELSE [ ok |-> TRUE,
           bytes |-> [ i \in 1 .. Len(digits) \div 2 |->
                         16 * digits[2 * i - 1] + digits[2 * i] ] ]

\* (first, a faulty variant that goes on with the next line)
after_end_of_file_mutContinue(input, i) == i + 1

\* the end-of-file arm of parse_hex: `break` leaves the loop over the lines,
\* so the next line read is none (the index after the last)
after_end_of_file(input, i) == Len(input) + 1

\* (first, a faulty variant that takes the record's value as the base)
segment_base_mutNoShift(data) == data[1] * 256 + data[2]

\* the extended segment address arm of parse_hex: the big-endian u16 of the
\* two data bytes, shifted left by 4
segment_base(data) == (data[1] * 256 + data[2]) * 16

\* (first, a faulty variant that extends whichever segment the data is
\* contiguous with, not only the last)
push_data_mutAnySegment(segments, full_address, data) ==
    LET fits == { k \in 1 .. Len(segments) :
                    full_address = add_u32(segments[k].address, Len(segments[k].data)) }
    IN  IF fits # {}
        THEN LET k == CHOOSE j \in fits : \A i \in fits : j <= i
             IN  [ segments EXCEPT ![k].data = @ \o data ]
        ELSE Append(segments, [ address |-> full_address, data |-> data ])

\* (first, a faulty variant that extends the last segment wherever the
\* data belongs)
push_data_mutAlwaysExtend(segments, full_address, data) ==
    LET n == Len(segments)
    IN  IF n > 0
        THEN [ segments EXCEPT ![n].data = @ \o data ]
        ELSE Append(segments, [ address |-> full_address, data |-> data ])

\* the data record arm of parse_hex: extend the last segment when the data
\* is contiguous with it, else push a new one
push_data(segments, full_address, data) ==
    LET n == Len(segments)
    IN  IF n > 0 /\ full_address = add_u32(segments[n].address, Len(segments[n].data))
        THEN [ segments EXCEPT ![n].data = @ \o data ]
        ELSE Append(segments, [ address |-> full_address, data |-> data ])

\* the checksum test of parse_hex: the wrapping 8-bit sum of all bytes is 0
checksum_ok(bytes) == SumBytes(bytes) % 256 = 0

RECURSIVE parse_from(_, _, _, _)
\* the loop of parse_hex from line i (1-based) on.  The result is
\* [kind |-> "ok", segments], [kind |-> "err", line, reason], or
\* [kind |-> "panic", line] when the slice bytes[4..4 + byte_count] is taken
\* beyond the end of bytes
parse_from(input, i, segments, base_address) ==
    IF i > Len(input) THEN [ kind |-> "ok", segments |-> segments ]
    ELSE LET line == input[i]
             d    == decode_hex_bytes(line.digits)
             bytes == d.bytes
             byte_count == bytes[1]
             address == bytes[2] * 256 + bytes[3]
             record_type == bytes[4]
             data == SubSeq(bytes, 5, 4 + byte_count)
             err(reason) == [ kind |-> "err", line |-> i, reason |-> reason ]
         IN  IF line.blank
             THEN parse_from(input, i + 1, segments, base_address)
             ELSE IF ~line.colon THEN err("missing start code")
             ELSE IF ~d.ok THEN err("invalid hex data")
             ELSE IF Len(bytes) < 5 THEN err("record too short")
             ELSE IF 4 + byte_count > Len(bytes) THEN [ kind |-> "panic", line |-> i ]
             ELSE IF Len(bytes) # 5 + byte_count THEN err("expected data bytes")
             ELSE IF ~checksum_ok(bytes) THEN err("checksum mismatch")
             ELSE CASE record_type = 0 ->
                         parse_from(input, i + 1,
                                    push_data(segments, u32(base_address + address), data),
                                    base_address)
                    [] record_type = 1 ->
                         parse_from(input, after_end_of_file(input, i), segments,
                                    base_address)
                    [] record_type = 2 ->
                         IF byte_count # 2
                         THEN err("extended segment address must be 2 bytes")
                         ELSE parse_from(input, i + 1, segments, segment_base(data))
                    [] OTHER -> err("unsupported record type")

\* parse_hex
parse_hex(input) == parse_from(input, 1, << >>, 0)

\* the largest and the smallest of a non-empty set of u32
max_u32(S) == CHOOSE x \in S : \A y \in S : le_u32(y, x)
min_u32(S) == CHOOSE x \in S : \A y \in S : le_u32(x, y)

\* the last index of a non-empty set of indices
LastOf(S) == CHOOSE x \in S : \A y \in S : y <= x

\* the byte flatten_segments fills the image with (erased flash)
gap_fill == 255

\* flatten_segments.  checked = the build traps arithmetic overflow (a debug
\* build); otherwise u32 arithmetic wraps.  The result is
\* [kind |-> "ok", base, image] with image a function of the offsets
\* 0 .. size - 1, [kind |-> "err"] for the empty list, or [kind |-> "panic"]
\* on a trapped overflow and on a copy beyond the end of the image
flatten_segments(segments, checked) ==
    LET idx      == 1 .. Len(segments)
        size(k)  == Len(segments[k].data)
        end(k)   == add_u32(segments[k].address, size(k))
        min_addr == min_u32({ segments[k].address : k \in idx })
        max_addr == max_u32({ wrap_u32(end(k)) : k \in idx })
        total    == sub_u32(max_addr, min_addr)
        total_size == as_usize(total)
        off32(k) == sub_u32(segments[k].address, min_addr)
        offset(k) == as_usize(off32(k))
        covers(k, off) == offset(k) <= off /\ off < offset(k) + size(k)
    IN  IF segments = << >> THEN [ kind |-> "err" ]
        ELSE IF checked /\ ((\E k \in idx : end(k).hi >= U16) \/ ~le_u32(min_addr, max_addr))
        THEN [ kind |-> "panic" ]
        ELSE IF \E k \in idx : ~le_u32(add_u32(off32(k), size(k)), total)
        THEN [ kind |-> "panic" ]
        ELSE [ kind |-> "ok", base |-> min_addr,
               image |-> [ off \in 0 .. total_size - 1 |->
                             IF \E k \in idx : covers(k, off)
                             THEN LET k == LastOf({ j \in idx : covers(j, off) })
                                  IN  segments[k].data[off - offset(k) + 1]
                             ELSE gap_fill ] ]

----------------------------------------------------------------------------
(* Input domains.                                                          *)

\* cells that may be pressed in the inputs of SpecReport, in the order in
\* which the bound admits them: seven ordinary keys of row 0, the left
\* control key, a layer-hold key, a cell transparent on both layers, a right
\* shift key, and a key that layer 1 overrides
ReportCellOrder ==
    << <<0, 0>>, <<0, 1>>, <<0, 2>>, <<0, 3>>, <<0, 4>>, <<0, 5>>, <<0, 6>>,
       <<2, 0>>, <<3, 6>>, <<0, 13>>, <<5, 10>>, <<2, 8>> >>

ReportCells == FirstCells(ReportCellOrder, NumReportCells)

\* cells that receive raw presses in SpecDeb and SpecPair
DebCellOrder == << <<0, 1>>, <<3, 6>>, <<2, 0>>, <<5, 11>> >>

DebCells == FirstCells(DebCellOrder, NumDebCells)

\* the two cells that receive raw presses in SpecPair
PairCells == { DebCellOrder[1], DebCellOrder[2] }

\* cells that receive raw presses in SpecFw, and whose presses make the
\* reports of SpecUsb: an ordinary key, the left control key, a layer-hold key
FwCellOrder == << <<0, 1>>, <<2, 0>>, <<3, 6>> >>

FwCells == FirstCells(FwCellOrder, NumFwCells)

UsbCells == FirstCells(FwCellOrder, NumUsbCells)

\* the report the main loop builds from a debounced snapshot
ReportOf(ks) ==
    LET l == CHOOSE n \in { resolve_layer(ks) } : TRUE
    IN  build_report(ks, l)

\* the reports handed to send_report in SpecUsb
UsbReports == { ReportOf(SnapshotOf(S)) : S \in SUBSET UsbCells }

Packet(t, r, vl, vh, n) ==
    [ bmRequestType |-> t, bRequest |-> r, wValueL |-> vl, wValueH |-> vh,
      wLength |-> n ]

\* the (bmRequestType, bRequest) values tried: those of handle_setup's arms
\* and one more of each
RequestTypes == { 0, 33, 64, 128, 129, 192 }
Requests == { 1, 5, 6, 8, 9, 10, 11, 255 }

\* SETUP packets: every pair with one wValue, and the two GET_DESCRIPTOR
\* pairs with every descriptor type, index and length tried
\* the host tool's vendor request (ergodox-cli, halfkay.rs)
REBOOT_REQUEST_TYPE == 64
REBOOT_REQUEST == 255

\* (first, a faulty variant of the host tool that sends another bRequest)
reboot_to_bootloader_mutRequest == Packet(REBOOT_REQUEST_TYPE, 254, 0, 0, 0)

\* reboot_to_bootloader: the SETUP packet its write_control puts on the bus
\* (wValue = wIndex = 0, no payload)
reboot_to_bootloader == Packet(REBOOT_REQUEST_TYPE, REBOOT_REQUEST, 0, 0, 0)

SetupPackets ==
    { Packet(t, r, 1, 0, 0) : t \in RequestTypes, r \in Requests }
    \cup { reboot_to_bootloader }
    \cup { Packet(t, 6, vl, vh, n) :
             t \in { 128, 129 }, vl \in 0 .. 3, vh \in { 1, 2, 3, 4, 34 },
             n \in { 0, 255 } }

\* SETUP packets of SpecFw: one per arm of handle_setup
FwPackets ==
    { Packet(128, 6, 0, 1, 255), Packet(128, 6, 3, 3, 255),
      Packet(0, 5, 1, 0, 0), Packet(0, 9, 1, 0, 0), Packet(128, 8, 0, 0, 1),
      Packet(129, 6, 0, 34, 255), Packet(33, 10, 0, 0, 0),
      Packet(33, 11, 0, 0, 0), Packet(64, 255, 0, 0, 0),
      Packet(192, 1, 0, 0, 0) }

\* what a poll call finds on EP0: no SETUP packet, or one of the packets P
\* with the flags TXINI and RXOUTI eventually setting or not
PollInputs(P) ==
    { [ rxstpi |-> FALSE, p |-> NoPacket, txini |-> TRUE, rxouti |-> TRUE ] }
    \cup { [ rxstpi |-> TRUE, p |-> q, txini |-> ti, rxouti |-> ro ] :
             q \in P, ti \in BOOLEAN, ro \in BOOLEAN }

\* how many cells of ScanCellOrder have a switch that closes in SpecScan
NumScanCells == 5

\* how many cells of the left half have a switch that closes in SpecMcp
NumMcpCells == 1

ScanCellOrder ==
    << << 1, 13 >>, << 0, 0 >>, << 5, 12 >>, << 3, 6 >>, << 0, 7 >>, << 2, 3 >>,
       << 4, 11 >> >>

ScanCells == FirstCells(ScanCellOrder, NumScanCells)

McpCells == FirstCells(<< << 0, 0 >>, << 3, 6 >>, << 2, 6 >> >>, NumMcpCells)

\* where an expander answers: nowhere, or at the first, a middle or the last
\* of the eight addresses
McpDevs ==
    { NoDev, MCP23018_BASE_ADDR, MCP23018_BASE_ADDR + 3, MCP23018_BASE_ADDR + 7 }

\* the columns scan_column is called with
McpCols == { 0, COLS_PER_HALF - 1 }

\* bus faults of a scan_column call: << step of the column write, step of the
\* row read >> that fails, 0 = none
ColumnFaults ==
    { << 0, 0 >> } \cup { << w, 0 >> : w \in 1 .. 4 } \cup { << 0, r >> : r \in 1 .. 6 }

\* the sets of left-half columns whose column write a bus fault hits in a scan
ScanFaults == { {}, { 0 }, { 2, 3 }, 0 .. COLS_PER_HALF - 1 }

\* what port B reads with column col driven low: the rows of a configured
\* expander; an unconfigured one drives no column and has no pull-ups, so
\* its pins read anything
PortReadings(S, col, cfg) ==
    IF cfg THEN { GpioB(S, col) } ELSE { GpioB(S, col), 255, 0 }

\* how many lines a HEX input of SpecHex has at most
MaxLines == 3

\* how many segments a segment list of SpecFlat has at most
MaxSegs == 2

\* the two hexadecimal digits of a byte
Hex2(b) == << b \div 16, b % 16 >>

RECURSIVE ToDigits(_)
\* the text of a byte sequence
ToDigits(bytes) ==
    IF bytes = << >> THEN << >> ELSE Hex2(bytes[1]) \o ToDigits(Tail(bytes))

\* a line of text holding ':' and the bytes
RecLine(bytes) == [ blank |-> FALSE, colon |-> TRUE, digits |-> ToDigits(bytes) ]

\* the bytes of a record with a valid checksum
Record(count, address, type, data) ==
    LET body == << count, address \div 256, address % 256, type >> \o data
    IN  body \o << (256 - (SumBytes(body) % 256)) % 256 >>

BlankLine == [ blank |-> TRUE, colon |-> FALSE, digits |-> << >> ]

\* the lines HEX inputs are made of: valid data records (contiguous,
\* overlapping, after a gap, holding 0xFF), end-of-file, extended segment
\* address (also of a wrong length), and lines that are wrong in one way
\* each
HexLines ==
    { BlankLine,
      RecLine(Record(2, 0, 0, << 1, 2 >>)),
      RecLine(Record(1, 2, 0, << 255 >>)),
      RecLine(Record(1, 1, 0, << 9 >>)),
      RecLine(Record(1, 5, 0, << 7 >>)),
      RecLine(Record(0, 8, 0, << >>)),
      RecLine(Record(0, 0, 1, << >>)),
      RecLine(Record(2, 0, 2, << 0, 1 >>)),
      RecLine(Record(1, 0, 2, << 1 >>)),
      RecLine(Record(1, 16, 0, << 5 >>)),
      RecLine(<< 2, 0, 0, 0, 1, 2, 252 >>),
      RecLine(<< 16, 0, 0, 0, 240 >>),
      RecLine(<< 16, 0, 0, 0, 1 >>),
      RecLine(<< 2, 0, 0, 0, 1, 253 >>),
      RecLine(<< 1, 0, 0, 0, 1, 2, 252 >>),
      RecLine(<< 0, 0 >>),
      RecLine(Record(0, 0, 3, << >>)),
      [ blank |-> FALSE, colon |-> FALSE, digits |-> ToDigits(Record(0, 0, 1, << >>)) ],
      [ blank |-> FALSE, colon |-> TRUE, digits |-> << 0, 0, NotHex, 0 >> ] }

HexInputs == UNION { [ 1 .. n -> HexLines ] : n \in 1 .. MaxLines }

\* the segments segment lists are made of: adjacent, overlapping, apart,
\* empty, and one that ends beyond the last u32 address
FlatSegs ==
    { [ address |-> a, data |-> d ] :
        a \in { u32(256), u32(257), u32(260) }, d \in { << >>, << 1 >>, << 2, 3 >> } }
    \cup { [ address |-> [ hi |-> U16 - 1, lo |-> U16 - 1 ], data |-> << 4, 5 >> ] }

FlatInputs == UNION { [ 1 .. n -> FlatSegs ] : n \in 0 .. MaxSegs }

\* how long RWAL stays clear in send_report's wait
RwalWaits == { 0, RWAL_TIMEOUT - 1, RWAL_TIMEOUT, RWAL_TIMEOUT + 1 }

----------------------------------------------------------------------------
(* Initial values shared by the specifications.                            *)

\* the value of a variable in a specification that does not use it
Unused == << >>

ReportIdle ==
    /\ keys = Unused
    /\ layer = 0
    /\ report = KeyboardReport_empty
    /\ rpc = "idle"

DebInit ==
    /\ state = Debouncer_new.state
    /\ counters = Debouncer_new.counters

DebOff ==
    /\ state = Unused
    /\ counters = Unused

PairIdle ==
    /\ state2 = Unused
    /\ counters2 = Unused
    /\ watch = <<0, 0>>

HistOff ==
    /\ lastp = Unused
    /\ before = Unused
    /\ base = Unused
    /\ len = Unused

\* the history is kept for the cells of S
HistInit(S) ==
    /\ lastp = [ cell \in S |-> FALSE ]
    /\ before = [ cell \in S |-> FALSE ]
    /\ base = [ cell \in S |-> FALSE ]
    /\ len = [ cell \in S |-> 0 ]

UsbOff ==
    /\ pc = "off"
    /\ configured = FALSE
    /\ last_report = KeyboardReport_empty
    /\ tx = NoReport
    /\ call = [ fn |-> "new" ]

FwIdle ==
    /\ txState = Unused
    /\ ripe = Unused

McpOff ==
    /\ mpc = "off"
    /\ mcp = Unused
    /\ dev = Unused
    /\ devCfg = Unused
    /\ mcall = Unused
    /\ streak = Unused
    /\ late = Unused
    /\ closed = Unused
    /\ snapshot = Unused

HexOff ==
    /\ hpc = "off"
    /\ hin = Unused
    /\ hout = Unused
    /\ flat = Unused

FlashOff ==
    /\ fpc = "off"
    /\ fin = Unused
    /\ fk = Unused
    /\ xfers = Unused
    /\ fres = Unused
    /\ cli = Unused

TwiOff == bus = Unused

KeymapOff ==
    /\ kpc = "off"
    /\ kin = Unused
    /\ kout = Unused

FirmwareIdle == ReportIdle /\ DebOff /\ PairIdle /\ HistOff /\ UsbOff /\ FwIdle

OtherIdle == McpOff /\ HexOff /\ FlashOff /\ TwiOff /\ KeymapOff

FwGhostInit(S) ==
    /\ txState = Debouncer_new.state
    /\ ripe = [ cell \in S |-> FALSE ]

\* the history after an update call with snapshot raw_state on committed state st
HistAfter(st, raw_state) ==
    LET p(cell) == ~raw_state[cell]
        cont(cell) == len[cell] > 0 /\ p(cell) = lastp[cell]
        S == DOMAIN len
    IN  [ lastp  |-> [ cell \in S |-> p(cell) ],
          before |-> [ cell \in S |-> st[cell] ],
          base   |-> [ cell \in S |-> IF cont(cell) THEN base[cell] ELSE st[cell] ],
          len    |-> [ cell \in S |->
                         IF cont(cell) THEN Min(len[cell] + 1, MaxStreak) ELSE 1 ] ]

HistStep(st, raw_state) ==
    LET h == HistAfter(st, raw_state)
    IN  /\ lastp' = h.lastp
        /\ before' = h.before
        /\ base' = h.base
        /\ len' = h.len

----------------------------------------------------------------------------
(* SpecReport: build_report applied to every input of the domain.          *)

ReportInit ==
    /\ keys \in { SnapshotOf(S) : S \in SUBSET ReportCells }
    /\ layer \in 0 .. NUM_LAYERS - 1
    /\ report = KeyboardReport_empty
    /\ rpc = "in"
    /\ DebOff /\ PairIdle /\ HistOff /\ UsbOff /\ FwIdle /\ OtherIdle

BuildReport ==
    /\ rpc = "in"
    /\ report' = build_report(keys, layer)
    /\ rpc' = "out"
    /\ UNCHANGED << keys, layer, debVars, pairVars, histVars, usbVars, fwVars, otherVars >>

ReportNext == BuildReport

SpecReport == ReportInit /\ [][ReportNext]_vars

----------------------------------------------------------------------------
(* SpecDeb: the debouncer under every sequence of raw snapshots.           *)

DebSpecInit ==
    /\ ReportIdle /\ DebInit /\ PairIdle /\ HistInit(DebCells) /\ UsbOff /\ FwIdle
    /\ OtherIdle

Update ==
    \E raw_state \in RawSnapshots(DebCells) :
        LET d == update([ state |-> state, counters |-> counters ], raw_state)
        IN  /\ state' = d.state
            /\ counters' = d.counters
            /\ HistStep(state, raw_state)
            /\ UNCHANGED << reportVars, pairVars, usbVars, fwVars, otherVars >>

DebNext == Update

SpecDeb == DebSpecInit /\ [][DebNext]_vars

----------------------------------------------------------------------------
(* SpecPair: two debouncers whose inputs agree on the cell watch.          *)

PairInit ==
    /\ ReportIdle /\ DebInit /\ HistOff /\ UsbOff /\ FwIdle /\ OtherIdle
    /\ state2 = Debouncer_new.state
    /\ counters2 = Debouncer_new.counters
    /\ watch \in PairCells

UpdatePair ==
    \E rawA \in RawSnapshots(PairCells), rawB \in RawSnapshots(PairCells) :
        /\ rawA[watch] = rawB[watch]
        /\ LET dA == update([ state |-> state, counters |-> counters ], rawA)
               dB == update([ state |-> state2, counters |-> counters2 ], rawB)
           IN  /\ state' = dA.state
               /\ counters' = dA.counters
               /\ state2' = dB.state
               /\ counters2' = dB.counters
        /\ UNCHANGED << reportVars, watch, histVars, usbVars, fwVars, otherVars >>

PairNext == UpdatePair

SpecPair == PairInit /\ [][PairNext]_vars

----------------------------------------------------------------------------
(* SpecUsb: the UsbKeyboard under every sequence of init, poll and         *)
(* send_report calls.                                                      *)

UsbInit ==
    /\ ReportIdle /\ DebOff /\ PairIdle /\ HistOff /\ FwIdle /\ OtherIdle
    /\ pc = "init"
    /\ configured = UsbKeyboard_new.configured
    /\ last_report = UsbKeyboard_new.last_report
    /\ tx = NoReport
    /\ call = [ fn |-> "new" ]

Usb == [ configured |-> configured, last_report |-> last_report ]

\* where control is after a call that ended with e
After(e, next) == IF e = "return" THEN next ELSE e

CallInit ==
    /\ pc \in { "init", "idle" }
    /\ \E plock \in BOOLEAN :
          LET r == init(Usb, plock)
          IN  /\ configured' = r.u.configured
              /\ last_report' = r.u.last_report
              /\ pc' = After(r.end, "idle")
              /\ call' = [ fn |-> "init", end |-> r.end ]
    /\ UNCHANGED << tx, reportVars, debVars, pairVars, histVars, fwVars, otherVars >>

CallPoll ==
    /\ pc = "idle"
    /\ \E eorsti \in BOOLEAN, a \in PollInputs(SetupPackets) :
          LET rxstpi == a.rxstpi
              p      == a.p
              r      == poll(Usb, eorsti, rxstpi, p, a.txini, a.rxouti)
          IN  /\ configured' = r.u.configured
              /\ last_report' = r.u.last_report
              /\ pc' = After(r.end, "idle")
              /\ call' = [ fn |-> "poll", eorsti |-> eorsti,
                           pkt |-> IF rxstpi THEN p ELSE NoPacket,
                           was |-> Usb, cfg0 |-> r.cfg0,
                           resp |-> r.resp, data |-> r.data, end |-> r.end ]
    /\ UNCHANGED << tx, reportVars, debVars, pairVars, histVars, fwVars, otherVars >>

CallSendReport ==
    /\ pc = "idle"
    /\ \E rep \in UsbReports, wait \in RwalWaits :
          LET r == send_report(Usb, rep, wait)
          IN  /\ configured' = r.u.configured
              /\ last_report' = r.u.last_report
              /\ tx' = IF r.wrote THEN rep ELSE tx
              /\ call' = [ fn |-> "send_report", arg |-> rep, wait |-> wait,
                           was |-> Usb, wasTx |-> tx, wrote |-> r.wrote ]
    /\ UNCHANGED << pc, reportVars, debVars, pairVars, histVars, fwVars, otherVars >>

UsbNext == CallInit \/ CallPoll \/ CallSendReport

SpecUsb == UsbInit /\ [][UsbNext]_vars

----------------------------------------------------------------------------
(* SpecFw: main() of the firmware: init, then the loop of poll, scan and   *)
(* debounce, build and send.  src/firmware/src/main.rs                     *)

FwInit ==
    /\ ReportIdle /\ DebInit /\ PairIdle /\ HistInit(FwCells) /\ FwGhostInit(FwCells)
    /\ OtherIdle
    /\ pc = "init"
    /\ configured = UsbKeyboard_new.configured
    /\ last_report = UsbKeyboard_new.last_report
    /\ tx = NoReport
    /\ call = [ fn |-> "new" ]

\* usb.init(&dp)
FwUsbInit ==
    /\ pc = "init"
    /\ \E plock \in BOOLEAN :
          LET r == init(Usb, plock)
          IN  /\ configured' = r.u.configured
              /\ last_report' = r.u.last_report
              /\ pc' = After(r.end, "poll")
    /\ UNCHANGED << tx, call, reportVars, debVars, pairVars, histVars, fwVars, otherVars >>

\* usb.poll(&dp)
FwPoll ==
    /\ pc = "poll"
    /\ \E eorsti \in BOOLEAN, a \in PollInputs(FwPackets) :
          LET r == poll(Usb, eorsti, a.rxstpi, a.p, a.txini, a.rxouti)
          IN  /\ configured' = r.u.configured
              /\ last_report' = r.u.last_report
              /\ pc' = After(r.end, "scan")
    /\ UNCHANGED << tx, call, reportVars, debVars, pairVars, histVars, fwVars, otherVars >>

\* let raw_state = matrix::scan(..); let debounced = debouncer.update(&raw_state)
FwScan ==
    /\ pc = "scan"
    /\ \E raw_state \in RawSnapshots(FwCells) :
          LET d == update([ state |-> state, counters |-> counters ], raw_state)
              h == HistAfter(state, raw_state)
          IN  /\ state' = d.state
              /\ counters' = d.counters
              /\ HistStep(state, raw_state)
              /\ ripe' = [ cell \in DOMAIN ripe |->
                             \/ ripe[cell]
                             \/ h.len[cell] >= 5 /\ h.base[cell] # h.lastp[cell] ]
    /\ pc' = "report"
    /\ UNCHANGED << configured, last_report, tx, call, txState, reportVars, pairVars, otherVars >>

\* resolve_layer, build_report, usb.send_report(&dp, &report)
FwReport ==
    /\ pc = "report"
    /\ \E wait \in RwalWaits, rep \in { ReportOf(state) } :
          LET r == send_report(Usb, rep, wait)
          IN  /\ configured' = r.u.configured
              /\ last_report' = r.u.last_report
              /\ tx' = IF r.wrote THEN rep ELSE tx
              /\ txState' = IF r.wrote THEN state ELSE txState
              /\ ripe' = IF r.wrote THEN [ cell \in DOMAIN ripe |-> FALSE ] ELSE ripe
              /\ call' = [ fn |-> "send_report", wrote |-> r.wrote ]
    /\ pc' = "poll"
    /\ UNCHANGED << reportVars, debVars, pairVars, histVars, otherVars >>

FwNext == FwUsbInit \/ FwPoll \/ FwScan \/ FwReport

SpecFw == FwInit /\ [][FwNext]_vars

----------------------------------------------------------------------------
(* SpecMcp: the Mcp23018 driver under arbitrary calls, bus faults and an   *)
(* expander that is plugged and unplugged.  src/firmware/src/i2c.rs        *)

McpBootInit ==
    /\ FirmwareIdle /\ HexOff /\ FlashOff /\ TwiOff /\ KeymapOff
    /\ mpc = "boot"
    /\ mcp = Mcp23018_new
    /\ dev \in McpDevs
    /\ devCfg = FALSE
    /\ mcall = [ fn |-> "new" ]
    /\ streak = 0
    /\ late = FALSE
    /\ closed = {}
    /\ snapshot = Unused

\* mcp.init(&dp.TWI), called once by main before the loop
McpCallInit ==
    /\ mpc = "boot"
    /\ \E pfault \in 0 .. 2, cfault \in 0 .. 4 :
          LET r == Mcp23018_init(mcp, dev, pfault, cfault)
          IN  /\ mcp' = r.m
              /\ devCfg' = (devCfg \/ r.written = 4)
              /\ mcall' = [ fn |-> "init", was |-> mcp,
                            fault |-> pfault + cfault, found |-> r.found ]
    /\ mpc' = "run"
    /\ streak' = 0
    /\ late' = (dev = NoDev)
    /\ UNCHANGED << dev, closed, snapshot, notMcpVars >>

\* the expander is unplugged, or one is plugged at some address: it powers up
\* unconfigured
McpPlug ==
    /\ mpc \in { "boot", "run" }
    /\ \E d \in McpDevs \ { dev } : dev' = d
    /\ devCfg' = FALSE
    /\ mcall' = [ fn |-> "plug" ]
    /\ UNCHANGED << mpc, mcp, streak, late, closed, snapshot, notMcpVars >>

\* keys are pressed and released
McpSwitches ==
    /\ mpc = "run"
    /\ \E S \in SUBSET McpCells : S # closed /\ closed' = S
    /\ mcall' = [ fn |-> "switches" ]
    /\ UNCHANGED << mpc, mcp, dev, devCfg, streak, late, snapshot, notMcpVars >>

\* mcp.try_reinit(&dp.TWI)
McpCallTryReinit ==
    /\ mpc = "run"
    /\ \E cfault \in 0 .. 4 :
          LET r == try_reinit(mcp, dev, cfault)
          IN  /\ mcp' = r.m
              /\ devCfg' = (devCfg \/ r.written = 4)
              /\ mcall' = [ fn |-> "try_reinit", was |-> mcp, fault |-> cfault,
                            wasLate |-> late ]
              /\ streak' = IF mcp.initialized THEN streak ELSE 0
              /\ late' = (late /\ ~r.m.initialized)
    /\ UNCHANGED << mpc, dev, closed, snapshot, notMcpVars >>

\* mcp.scan_column(twi, col)
McpCallScanColumn ==
    /\ mpc = "run"
    /\ \E col \in McpCols, f \in ColumnFaults :
        \E val \in PortReadings(closed, col, devCfg) :
          LET r == scan_column(mcp, col, dev, f[1], f[2], val)
              errored == mcp.initialized /\ (f # << 0, 0 >> \/ dev # mcp.addr)
          IN  /\ mcp' = r.m
              /\ mcall' = [ fn |-> "scan_column", was |-> mcp,
                            col |-> col, val |-> val, errored |-> errored,
                            ret |-> r.ret, steps |-> r.steps ]
              /\ streak' = IF ~mcp.initialized THEN streak
                           ELSE IF errored THEN streak + 1 ELSE 0
    /\ UNCHANGED << mpc, dev, devCfg, late, closed, snapshot, notMcpVars >>

McpNext ==
    McpCallInit \/ McpPlug \/ McpSwitches \/ McpCallTryReinit \/ McpCallScanColumn

SpecMcp == McpBootInit /\ [][McpNext]_vars

----------------------------------------------------------------------------
(* SpecScan: matrix::scan as a function of the closed switches and the     *)
(* driver's state.  src/firmware/src/matrix.rs                             *)

ScanInit ==
    /\ FirmwareIdle /\ HexOff /\ FlashOff /\ TwiOff /\ KeymapOff
    /\ mpc = "scan_in"
    /\ dev \in { NoDev, MCP23018_BASE_ADDR }
    /\ mcp \in { [ addr |-> MCP23018_BASE_ADDR, initialized |-> i, errors |-> e ] :
                    i \in BOOLEAN, e \in { 0, MCP_MAX_ERRORS - 1 } }
    /\ devCfg = (dev # NoDev)
    /\ mcall = [ fn |-> "new" ]
    /\ streak = 0
    /\ late = FALSE
    /\ closed \in SUBSET ScanCells
    /\ snapshot = Unused

\* let raw_state = matrix::scan(&dp, &mcp)
Scan ==
    /\ mpc = "scan_in"
    /\ \E bad \in ScanFaults :
          LET r == scan(closed, mcp, dev, bad,
                        [ col \in 0 .. COLS_PER_HALF - 1 |-> GpioB(closed, col) ])
          IN  /\ mcp' = r.m
              /\ snapshot' = r.state
              /\ mcall' = [ fn |-> "scan", was |-> mcp, bad |-> bad ]
    /\ mpc' = "scan_out"
    /\ UNCHANGED << dev, devCfg, streak, late, closed, notMcpVars >>

ScanNext == Scan

SpecScan == ScanInit /\ [][ScanNext]_vars

----------------------------------------------------------------------------
(* SpecHex: parse_hex on a HEX text, then flatten_segments on its result.  *)
(* SpecFlat: flatten_segments on a segment list.                           *)
(* src/ergodox-cli/src/hex.rs, src/ergodox-cli/src/main.rs                 *)

HexInit ==
    /\ FirmwareIdle /\ McpOff /\ FlashOff /\ TwiOff /\ KeymapOff
    /\ hpc = "in"
    /\ hin \in HexInputs
    /\ hout = Unused
    /\ flat = Unused

\* let segments = hex::parse_hex(&content)
ParseHex ==
    /\ hpc = "in"
    /\ hout' = parse_hex(hin)
    /\ hpc' = "parsed"
    /\ UNCHANGED << hin, flat, notHexVars >>

\* let (base, image) = hex::flatten_segments(&segments), on parse_hex's Ok
FlattenParsed ==
    /\ hpc = "parsed"
    /\ hout.kind = "ok"
    /\ \E checked \in BOOLEAN : flat' = flatten_segments(hout.segments, checked)
    /\ hpc' = "flat"
    /\ UNCHANGED << hin, hout, notHexVars >>

HexNext == ParseHex \/ FlattenParsed

SpecHex == HexInit /\ [][HexNext]_vars

FlatInit ==
    /\ FirmwareIdle /\ McpOff /\ FlashOff /\ TwiOff /\ KeymapOff
    /\ hpc = "segments"
    /\ hin \in FlatInputs
    /\ hout = Unused
    /\ flat = Unused

\* flatten_segments(&segments)
Flatten ==
    /\ hpc = "segments"
    /\ \E checked \in BOOLEAN :
          flat' = flatten_segments(hin, checked)
    /\ hpc' = "flat"
    /\ UNCHANGED << hin, hout, notHexVars >>

FlatNext == Flatten

SpecFlat == FlatInit /\ [][FlatNext]_vars

----------------------------------------------------------------------------
(* Claims about the debouncer (SpecDeb, SpecPair).                         *)

\* a cell whose current streak of equal raw readings is opposite to the state
\* that was committed when the streak began
Opposing(cell) == len[cell] > 0 /\ base[cell] # lastp[cell]

\* C1: a cell whose raw reading (pressed sense) is the opposite of its
\* committed state for 5 or more consecutive update calls keeps its committed
\* state through the first 4 of them, flips on the 5th, has counter 0 right
\* after the 5th, and does not flip again while the reading lasts.
C1_FlipOnFifth ==
    \A cell \in DOMAIN len :
        Opposing(cell) =>
            /\ len[cell] < 5 => state[cell] = base[cell]
            /\ len[cell] = 5 => /\ before[cell] = base[cell]
                                /\ state[cell] = lastp[cell]
                                /\ counters[cell] = 0
            /\ len[cell] > 5 => /\ before[cell] = lastp[cell]
                                /\ state[cell] = lastp[cell]

\* C1 happens: a reading held for 6 calls against the committed state, flipped.
C1_Witness ==
    \E cell \in DOMAIN len :
        /\ Opposing(cell)
        /\ len[cell] = 6
        /\ state[cell] = lastp[cell]
        /\ lastp[cell] = TRUE

\* C2: after every update call, a cell whose raw reading in that call agreed
\* with its committed state before the call has counter 0.
C2_AgreeZeroesCounter ==
    \A cell \in DOMAIN len :
        (len[cell] > 0 /\ lastp[cell] = before[cell]) => counters[cell] = 0

\* C2 happens: a committed-pressed cell read pressed again right after a
\* released reading had raised its counter.
C2_Witness ==
    \E cell \in DOMAIN len :
        /\ len[cell] = 1
        /\ lastp[cell] = TRUE
        /\ before[cell] = TRUE
        /\ counters[cell] = 0

\* C3: when the two input sequences agree on cell watch at every step, the
\* committed state and the counter of watch agree after every update,
\* whatever the other cells read.
C3_PerCell ==
    /\ state[watch] = state2[watch]
    /\ counters[watch] = counters2[watch]

\* C3 happens: the watched cell is mid-bounce while another cell has diverged
\* between the two runs.
C3_Witness ==
    /\ counters[watch] > 0
    /\ state[watch] = TRUE
    /\ \E cell \in Cells \ {watch} :
          /\ state[cell] # state2[cell]
          /\ counters[cell] # counters2[cell]

----------------------------------------------------------------------------
(* Claims about build_report (SpecReport).                                 *)

RowMajor(cell) == cell[1] * COLS + cell[2]

\* the keycode build_report resolves for a cell
Resolved(cell) == lookup(layer, cell[1], cell[2])

\* pressed cells whose resolved code goes to a slot
SlotCells ==
    { cell \in Cells :
        /\ keys[cell]
        /\ Resolved(cell) # 0
        /\ ~(Resolved(cell) >= 240 /\ Resolved(cell) <= 255)
        /\ Resolved(cell) # 1
        /\ ~(Resolved(cell) >= 224 /\ Resolved(cell) <= 231) }

\* pressed cells whose resolved code is a modifier
ModifierCells ==
    { cell \in Cells :
        keys[cell] /\ Resolved(cell) >= 224 /\ Resolved(cell) <= 231 }

\* how many slot cells precede a cell in row-major order
Rank(cell) == Cardinality({ d \in SlotCells : RowMajor(d) < RowMajor(cell) })

Bit(v, k) == (v \div (2 ^ k)) % 2

\* C5: the report has reserved byte 0 and no slot holds a modifier code, a
\* layer-hold code or the error-rollover code.
C5_SlotsClean ==
    rpc = "out" =>
        /\ report.reserved = 0
        /\ \A i \in 1 .. 6 :
              /\ ~(report.keys[i] >= 224 /\ report.keys[i] <= 231)
              /\ ~(report.keys[i] >= 240 /\ report.keys[i] <= 255)
              /\ report.keys[i] # 1

\* C5 happens: a modifier, a layer-hold key and an ordinary key are pressed.
C5_Witness ==
    /\ rpc = "out"
    /\ keys[<<2, 0>>] /\ keys[<<3, 6>>] /\ keys[<<0, 1>>]
    /\ report.keys[1] # 0
    /\ report.modifiers # 0

\* C6 as stated: no slot holds a layer code or the transparent code 0x00.
C6_NoTransparentSlot ==
    rpc = "out" =>
        \A i \in 1 .. 6 :
            /\ ~(report.keys[i] >= 240 /\ report.keys[i] <= 255)
            /\ report.keys[i] # 0

\* C6 amended: no slot holds a layer code; the slots build_report filled (as
\* many as there are pressed slot cells, at most six) do not hold the
\* transparent code, and every slot after them holds 0x00.
C6_FilledSlotsNotTransparent ==
    rpc = "out" =>
        \A i \in 1 .. 6 :
            /\ ~(report.keys[i] >= 240 /\ report.keys[i] <= 255)
            /\ i <= Cardinality(SlotCells) => report.keys[i] # 0
            /\ i > Cardinality(SlotCells) => report.keys[i] = 0

\* C6 happens: a transparent cell and a layer-hold key are pressed among
\* ordinary keys, and some slot stays unused.
C6_Witness ==
    /\ rpc = "out"
    /\ keys[<<0, 13>>] /\ keys[<<3, 6>>] /\ keys[<<0, 0>>]
    /\ report.keys[1] # 0
    /\ report.keys[6] = 0

\* C7: slot i holds the resolved code of the i-th pressed slot cell in
\* row-major order, for the first six of them; further slot cells are dropped
\* and no error-rollover code is emitted; the modifier byte is the OR of the
\* modifier bits of all pressed modifier cells.
C7_FirstSixRowMajor ==
    rpc = "out" =>
        /\ \A cell \in SlotCells :
              Rank(cell) < 6 => report.keys[Rank(cell) + 1] = Resolved(cell)
        /\ \A i \in 1 .. 6 :
              /\ i > Cardinality(SlotCells) => report.keys[i] = 0
              /\ report.keys[i] # 1
        /\ \A k \in 0 .. 7 :
              Bit(report.modifiers, k) = 1
                  <=> \E cell \in ModifierCells : Resolved(cell) = 224 + k
        /\ report.modifiers \in 0 .. 255

\* C7 happens: seven slot cells are pressed and a modifier is scanned after
\* the six slots are full.
C7_Witness ==
    /\ rpc = "out"
    /\ Cardinality(SlotCells) >= 7
    /\ \E cell \in ModifierCells :
          /\ \A d \in SlotCells : RowMajor(d) < RowMajor(cell)
          /\ Bit(report.modifiers, Resolved(cell) - 224) = 1

----------------------------------------------------------------------------
(* Claims about the main loop (SpecFw).                                    *)

\* C4: in the main loop, the committed state of a key differs from the state
\* the last transmitted report was built from only if, since that
\* transmission, the key's raw reading has been held for 5 consecutive scans
\* against the state committed when the reading began; every transmitted
\* report is the report of the committed state at its transmission; and a
\* raw reading held for fewer than 5 consecutive scans against the committed
\* state leaves the committed state as it was.
C4_NoReportBeforeFiveScans ==
    /\ \A cell \in DOMAIN ripe :
          /\ state[cell] # txState[cell] => ripe[cell]
          /\ (Opposing(cell) /\ len[cell] < 5) => state[cell] = base[cell]
    /\ tx # NoReport => tx = ReportOf(txState)
    /\ (pc = "poll" /\ call.fn = "send_report" /\ call.wrote) => txState = state

\* C4 happens: a report with a key in it was just transmitted, on the scan
\* cycle in which the key's pressed reading reached its 5th consecutive scan.
C4_Witness ==
    /\ pc = "poll"
    /\ call.fn = "send_report"
    /\ call.wrote
    /\ tx # KeyboardReport_empty
    /\ \E cell \in DOMAIN ripe :
          /\ txState[cell]
          /\ lastp[cell]
          /\ len[cell] = 5
          /\ ~base[cell]

----------------------------------------------------------------------------
(* Claims about the USB stack (SpecUsb).                                   *)

\* C8: send_report writes to endpoint 1 only when the device is configured
\* and the report differs from the cached one; a report equal to the cached
\* one is not written; the cache always equals the most recently transmitted
\* report (the empty report if none was transmitted); a call that does not
\* write (unconfigured, unchanged, timed out) leaves the cache unchanged.
C8_SendReportCache ==
    /\ last_report = IF tx = NoReport THEN KeyboardReport_empty ELSE tx
    /\ call.fn = "send_report" =>
          /\ call.wrote => /\ call.was.configured
                           /\ call.arg # call.was.last_report
                           /\ tx = call.arg
          /\ call.arg = call.was.last_report => ~call.wrote
          /\ ~call.wrote => /\ last_report = call.was.last_report
                            /\ tx = call.wasTx

\* C8 happens: after a transmission, a configured device was handed a new
\* report and timed out waiting for the endpoint.
C8_Witness ==
    /\ call.fn = "send_report"
    /\ ~call.wrote
    /\ call.was.configured
    /\ call.arg # call.was.last_report
    /\ call.wait >= RWAL_TIMEOUT
    /\ tx # NoReport
    /\ tx # KeyboardReport_empty

\* C9: every call of init, poll and send_report returns, whatever the
\* hardware flags do: no call spins forever on a flag that never sets.
C9_EveryCallReturns == pc # "hung"

\* the (bmRequestType, bRequest) pairs handle_setup has an arm for
HandledPairs ==
    { << 128, 6 >>, << 0, 5 >>, << 0, 9 >>, << 128, 8 >>, << 129, 6 >>,
      << 33, 10 >>, << 33, 11 >>, << 64, 255 >> }

\* the SETUP packets that are to be refused
Refused(p) ==
    \/ << p.bmRequestType, p.bRequest >> \notin HandledPairs
    \/ /\ p.bmRequestType = 128 /\ p.bRequest = 6
       /\ \/ p.wValueH \notin { 1, 2, 3 }
          \/ p.wValueH = 3 /\ p.wValueL \notin { 0, 1, 2 }
    \/ p.bmRequestType = 129 /\ p.bRequest = 6 /\ p.wValueH # 34

\* C10: a SETUP packet whose (bmRequestType, bRequest) pair has no arm, a
\* GET_DESCRIPTOR of a type other than device / configuration / string (HID
\* report on the interface request), and a string GET_DESCRIPTOR of an index
\* other than 0, 1, 2 are answered with a STALL on EP0, the call returns, and
\* the configured flag and the cached report stay as they were when the
\* handler was entered.
C10_UnknownSetupStalls ==
    (call.fn = "poll" /\ call.pkt # NoPacket /\ Refused(call.pkt)) =>
        /\ call.resp = "stall"
        /\ call.data = << >>
        /\ call.end = "return"
        /\ configured = call.cfg0
        /\ last_report = call.was.last_report

\* C10 happens: a configured device with a transmitted report cached refused
\* a request of an unknown pair.
C10_Witness ==
    /\ call.fn = "poll"
    /\ call.pkt # NoPacket
    /\ << call.pkt.bmRequestType, call.pkt.bRequest >> \notin HandledPairs
    /\ call.resp = "stall"
    /\ configured
    /\ last_report # KeyboardReport_empty

\* the SETUP packet of the last poll call is the request (t, r)
Handled(t, r) ==
    /\ call.fn = "poll"
    /\ call.pkt # NoPacket
    /\ call.pkt.bmRequestType = t
    /\ call.pkt.bRequest = r

\* C11: the configured flag is FALSE after init; after a poll call it is TRUE
\* if the call handled a SET_CONFIGURATION, else FALSE if the call saw an
\* end-of-reset, else what it was before the call (so it is TRUE exactly when
\* a SET_CONFIGURATION was handled since the last end-of-reset and init, the
\* reset being applied before the SETUP of the same poll); a GET_CONFIGURATION
\* that returns emits the single byte 1 if the device is configured at that
\* point and 0 otherwise; send_report leaves the flag alone.
C11_ConfiguredFlag ==
    /\ call.fn = "new" => ~configured
    /\ (call.fn = "init" /\ call.end = "return") => ~configured
    /\ call.fn = "send_report" => configured = call.was.configured
    /\ call.fn = "poll" =>
          LET reset == IF call.eorsti THEN FALSE ELSE call.was.configured
          IN  /\ configured = IF Handled(0, 9) THEN TRUE ELSE reset
              /\ (Handled(128, 8) /\ call.end = "return") =>
                    /\ call.resp = "byte"
                    /\ call.data = << IF reset THEN 1 ELSE 0 >>

\* C11 happens: a configured device saw an end-of-reset and a
\* SET_CONFIGURATION in one poll call and is configured after it.
C11_Witness ==
    /\ Handled(0, 9)
    /\ call.eorsti
    /\ call.was.configured
    /\ configured

\* C12: the request reboot_to_bootloader sends, arriving as a SETUP packet at
\* a firmware that is configured or not, is answered with a ZLP (not a STALL)
\* and ends in the jump to the bootloader; after the jump nothing changes any
\* more: no SETUP is handled and no report is sent.
C12_RebootContract ==
    /\ [](  (call.fn = "poll" /\ call.pkt = reboot_to_bootloader) =>
               /\ call.resp = "zlp"
               /\ call.end = "bootloader"
               /\ pc = "bootloader" )
    /\ [][ pc # "bootloader" ]_vars

\* C12 happens: a configured firmware that has transmitted a report received
\* the host tool's request and jumped.
C12_Witness ==
    /\ call.fn = "poll"
    /\ call.pkt = reboot_to_bootloader
    /\ call.cfg0
    /\ tx # NoReport
    /\ pc = "bootloader"

----------------------------------------------------------------------------
(* Claims about the MCP23018 driver (SpecMcp) and the matrix scan          *)
(* (SpecScan).                                                             *)

\* C13: a scan_column call on a driver that is not initialized, or in which
\* an I2C step of the column write or of the row read fails, returns 0xFF;
\* on a driver that is not initialized it issues no I2C step and leaves the
\* driver, its error counter included, as it was.
C13_ScanColumnNoKeys ==
    mcall.fn = "scan_column" =>
        /\ (~mcall.was.initialized \/ mcall.errored) => mcall.ret = 255
        /\ ~mcall.was.initialized => (mcall.steps = 0 /\ mcp = mcall.was)

\* C13 happens: with a key of the column held, the row read failed after the
\* column write had succeeded, and the call returned 0xFF.
C13_Witness ==
    /\ mcall.fn = "scan_column"
    /\ mcall.errored
    /\ mcall.steps > 4
    /\ mcall.val # 255
    /\ mcall.ret = 255

\* C14: while the driver is initialized its error counter is the number of
\* erroring scan_column calls since the last successful read (or since it was
\* initialized) and is below 10; an erroring call adds one to the counter, a
\* call whose read succeeds zeroes it; a call on an initialized driver leaves
\* it uninitialized exactly when it is the 10th erroring call in a row.
C14_ErrorCounting ==
    /\ mcp.initialized => (mcp.errors = streak /\ streak < 10)
    /\ (mcall.fn = "scan_column" /\ mcall.was.initialized) =>
          /\ mcall.errored => mcp.errors = mcall.was.errors + 1
          /\ ~mcall.errored => (mcp.errors = 0 /\ mcall.ret = mcall.val)
          /\ ~mcp.initialized <=> (mcall.errored /\ streak = 10)

\* C14 happens: the 10th erroring call in a row has just marked the driver
\* uninitialized.
C14_Witness ==
    /\ mcall.fn = "scan_column"
    /\ mcall.was.initialized
    /\ mcall.was.errors = 9
    /\ ~mcp.initialized
    /\ streak = 10

\* C15: when no expander was on the bus at boot and one answers later at any
\* of the addresses 0x20 .. 0x27, a try_reinit call that meets no bus fault
\* configures it and marks the driver initialized.
C15_LateConnection ==
    (mcall.fn = "try_reinit" /\ mcall.wasLate /\ mcall.fault = 0
        /\ dev \in McpAddrs) =>
        (mcp.initialized /\ devCfg)

\* C16: after a scan with a working expander, every cell of the 6 x 14
\* snapshot holds FALSE (pressed, active low) exactly when its key switch is
\* closed: columns 0 .. 6 through the expander, columns 7 .. 13 through the
\* drive pins.
C16_ScanCoverage ==
    (mpc = "scan_out" /\ mcall.was.initialized /\ dev = mcall.was.addr
        /\ mcall.bad = {}) =>
        \A cell \in Cells : (snapshot[cell] = FALSE) <=> (cell \in closed)

----------------------------------------------------------------------------
(* Claims about the Intel HEX parser, under SpecHex.                       *)

\* the decoded bytes of a line
LineBytes(l) == decode_hex_bytes(l.digits).bytes

\* the line is a record: ':' followed by pairs of hexadecimal digits, at
\* least the count byte
IsRecord(l) ==
    ~l.blank /\ l.colon /\ decode_hex_bytes(l.digits).ok /\ LineBytes(l) # << >>

\* the unsigned 8-bit sum of all decoded bytes of a record
ByteSum(l) == SumBytes(LineBytes(l)) % 256

\* the decoded length of a record is 5 + count
WellFramed(l) == Len(LineBytes(l)) = 5 + LineBytes(l)[1]

RecordType(l) == LineBytes(l)[4]

\* the record is well formed: framed, checksummed, of a supported type
GoodRecord(l) ==
    /\ IsRecord(l) /\ WellFramed(l) /\ ByteSum(l) = 0
    /\ RecordType(l) \in { 0, 1, 2 }
    /\ RecordType(l) = 2 => LineBytes(l)[1] = 2

\* parsing goes on after the line: blank, or a good record that is not
\* the end-of-file record
Passes(l) == l.blank \/ (GoodRecord(l) /\ RecordType(l) # 1)

\* parse_hex gets as far as line i
Reached(input, i) == \A j \in 1 .. i - 1 : Passes(input[j])

\* C17: a record the parser gets to whose byte-sum modulo 256 is nonzero
\* makes parse_hex return a failure naming the record's 1-based line
\* number, blank lines counted.
C17_ChecksumFailure ==
    hpc # "in" =>
        \A i \in DOMAIN hin :
            (Reached(hin, i) /\ IsRecord(hin[i]) /\ ByteSum(hin[i]) # 0)
                => (hout.kind = "err" /\ hout.line = i)

\* C18: a record the parser gets to whose decoded length differs from
\* 5 + count, shorter or longer, makes parse_hex return a failure naming
\* the record's 1-based line number; parse_hex does not abort.
C18_Framing ==
    hpc # "in" =>
        \A i \in DOMAIN hin :
            (Reached(hin, i) /\ IsRecord(hin[i]) /\ ~WellFramed(hin[i]))
                => (hout.kind = "err" /\ hout.line = i)

\* the data records of an input that parse_hex reads: those before the
\* end-of-file record
DataRecords(input) ==
    { i \in DOMAIN input :
        Reached(input, i) /\ GoodRecord(input[i]) /\ RecordType(input[i]) = 0 }

\* the data bytes of a record
RecordData(l) == SubSeq(LineBytes(l), 5, 4 + LineBytes(l)[1])

\* the absolute address of data record i: its address field plus 16 times
\* the value of the last extended segment address record before it
AbsAddr(input, i) ==
    LET esa == { j \in 1 .. i - 1 : ~input[j].blank /\ RecordType(input[j]) = 2 }
        base_address ==
            IF esa = {} THEN 0
            ELSE LET d == RecordData(input[LastOf(esa)])
                 IN  (d[1] * 256 + d[2]) * 16
    IN  base_address + LineBytes(input[i])[2] * 256 + LineBytes(input[i])[3]

\* data record i provides a byte for absolute address a
CoversAddr(input, i, a) ==
    AbsAddr(input, i) <= a /\ a < AbsAddr(input, i) + Len(RecordData(input[i]))

\* the image holds byte b for absolute address a
ImageHolds(a, b) ==
    LET off == a - as_usize(flat.base)
    IN  off \in DOMAIN flat.image /\ flat.image[off] = b

\* parse_hex accepted the input, which has a data record, and the segments
\* were flattened
RoundTripDone == hpc = "flat" /\ DataRecords(hin) # {}

\* C19 (as stated): after flatten_segments(parse_hex(x)), for an accepted x
\* with a data record, the image holds the literal data bytes of every data
\* record before end-of-file at offset (absolute address - base).
C19_RoundTrip ==
    RoundTripDone =>
        /\ flat.kind = "ok"
        /\ \A i \in DataRecords(hin) : \A k \in 1 .. Len(RecordData(hin[i])) :
              ImageHolds(AbsAddr(hin, i) + k - 1, RecordData(hin[i])[k])

\* C19 (amended): the image holds, for every address a data record before
\* end-of-file provides a byte for, the byte of the last such record in
\* file order; so it holds the literal bytes of every data record that no
\* later data record overlaps, and gap filler at none of these addresses.
C19_RoundTripLastRecord ==
    RoundTripDone =>
        /\ flat.kind = "ok"
        /\ \A i \in DataRecords(hin) : \A k \in 1 .. Len(RecordData(hin[i])) :
              LET a == AbsAddr(hin, i) + k - 1
                  j == LastOf({ r \in DataRecords(hin) : CoversAddr(hin, r, a) })
              IN  ImageHolds(a, RecordData(hin[j])[a - AbsAddr(hin, j) + 1])

\* a round trip of an input in which two data records give different bytes
\* for one address: the image holds the byte of the later record
C19_Witness ==
    /\ RoundTripDone /\ flat.kind = "ok"
    /\ \E i \in DataRecords(hin) : \E j \in DataRecords(hin) :
          /\ i < j
          /\ \E a \in 0 .. 32 :
                /\ CoversAddr(hin, i, a) /\ CoversAddr(hin, j, a)
                /\ RecordData(hin[i])[a - AbsAddr(hin, i) + 1]
                     # RecordData(hin[j])[a - AbsAddr(hin, j) + 1]
                /\ ImageHolds(a, RecordData(hin[j])[a - AbsAddr(hin, j) + 1])

----------------------------------------------------------------------------
(* Claims about flatten_segments, under SpecFlat.                          *)

\* the end of a segment, exclusive, not wrapped
SegEnd(s) == add_u32(s.address, Len(s.data))

\* the segments of the list that provide a byte for image offset off
\* from min_addr
CoveringSegs(segments, min_addr, off) ==
    { k \in DOMAIN segments :
        /\ le_u32(segments[k].address, add_u32(min_addr, off))
        /\ ~le_u32(SegEnd(segments[k]), add_u32(min_addr, off)) }

----------------------------------------------------------------------------
(* HalfKay flashing of the host tool.                                      *)
(* src/ergodox-cli/src/halfkay.rs                                          *)

PAGE_SIZE == 128
FLASH_SIZE == 32768
HALFKAY_REQUEST_TYPE == 33
HALFKAY_SET_REPORT == 9
HALFKAY_REPORT_VALUE == 512
HALFKAY_REBOOT_ADDRESS == 65535

\* vec![b; n]
Fill(n, b) == [ i \in 1 .. n |-> b ]

\* (first, a faulty variant that pads with 0x00)
build_page_buffer_mutZeroPad(address, data) ==
    IF Len(data) > PAGE_SIZE THEN [ kind |-> "panic" ]
    ELSE [ kind |-> "ok",
           buf |-> << address % 256, (address \div 256) % 256 >>
                     \o data \o Fill(PAGE_SIZE - Len(data), 0) ]

\* build_page_buffer.  Byte i of the source's buffer is buf[i + 1].  The
\* result is [kind |-> "ok", buf], or [kind |-> "panic"] when the assertion
\* data.len() <= PAGE_SIZE fails
build_page_buffer(address, data) ==
    IF Len(data) > PAGE_SIZE THEN [ kind |-> "panic" ]
    ELSE [ kind |-> "ok",
           buf |-> << address % 256, (address \div 256) % 256 >>
                     \o data \o Fill(PAGE_SIZE - Len(data), 255) ]

\* the control transfer of write_page and of reboot: HID SET_REPORT with
\* the buffer as payload
SetReport(buf) ==
    [ request_type |-> HALFKAY_REQUEST_TYPE, request |-> HALFKAY_SET_REPORT,
      value |-> HALFKAY_REPORT_VALUE, index |-> 0, buf |-> buf ]

\* (first, a faulty variant of the reboot buffer: the address alone)
reboot_buf_mutShort ==
    << HALFKAY_REBOOT_ADDRESS % 256, (HALFKAY_REBOOT_ADDRESS \div 256) % 256 >>

\* the buffer reboot sends: the sentinel address, then PAGE_SIZE zero bytes
reboot_buf ==
    << HALFKAY_REBOOT_ADDRESS % 256, (HALFKAY_REBOOT_ADDRESS \div 256) % 256 >>
      \o Fill(PAGE_SIZE, 0)

\* data.chunks(PAGE_SIZE): how many chunks, and chunk page_idx (from 0)
num_chunks(data) == (Len(data) + PAGE_SIZE - 1) \div PAGE_SIZE

chunk(data, page_idx) ==
    LET first == page_idx * PAGE_SIZE + 1
        last  == IF first + PAGE_SIZE - 1 < Len(data)
                 THEN first + PAGE_SIZE - 1 ELSE Len(data)
    IN  SubSeq(data, first, last)

\* (first, a faulty variant that looks at the first byte of the page only)
all_erased_mutFirstByte(c) == c = << >> \/ c[1] = 255

\* chunk.iter().all(|&b| b == 0xFF)
all_erased(c) == \A i \in DOMAIN c : c[i] = 255

----------------------------------------------------------------------------
(* SpecPage: build_page_buffer on an address and a data slice.             *)

\* data slices: empty, short, one byte short of a page, a page, longer than
\* a page; erased, zero, or a ramp
PageData ==
    { Fill(n, b) : n \in { 0, 1, 2, PAGE_SIZE - 1, PAGE_SIZE, PAGE_SIZE + 1 },
                   b \in { 0, 255 } }
    \cup { [ i \in 1 .. n |-> (7 * i) % 256 ] :
             n \in { 2, PAGE_SIZE - 1, PAGE_SIZE, PAGE_SIZE + 2 } }

\* addresses: page starts, an address with two different bytes, the last
\* address of 16 bits, and one that does not fit 16 bits
PageAddresses == { 0, PAGE_SIZE, 4660, FLASH_SIZE - PAGE_SIZE, 65535, 70000 }

PageInit ==
    /\ FirmwareIdle /\ McpOff /\ HexOff /\ TwiOff /\ KeymapOff
    /\ fpc = "in"
    /\ fin \in [ address : PageAddresses, data : PageData ]
    /\ fk = Unused
    /\ xfers = Unused
    /\ fres = Unused
    /\ cli = Unused

\* let buf = build_page_buffer(address, chunk)
BuildPageBuffer ==
    /\ fpc = "in"
    /\ fres' = build_page_buffer(fin.address, fin.data)
    /\ fpc' = "out"
    /\ UNCHANGED << fin, fk, xfers, cli, notFlashVars >>

PageNext == BuildPageBuffer

SpecPage == PageInit /\ [][PageNext]_vars

\* the buffer is address low byte, address bits 8 .. 15, the data, and
\* 0xFF up to 2 + PAGE_SIZE bytes
PageBufferOf(buf, address, data) ==
    /\ Len(buf) = 2 + PAGE_SIZE
    /\ buf[1] = address % 256
    /\ buf[2] = (address \div 256) % 256
    /\ \A i \in 1 .. Len(data) : i + 2 <= Len(buf) /\ buf[i + 2] = data[i]
    /\ \A i \in Len(data) + 3 .. Len(buf) : buf[i] = 255

----------------------------------------------------------------------------
(* SpecFlash: flash(base_address, data) against a HalfKay device whose     *)
(* control transfers succeed or fail.                                      *)

\* how many full pages an image of SpecFlash has at most
MaxPages == 2

\* (first, a faulty variant that lets the image end one page beyond)
too_large_mutPageBeyond(base_address, data) ==
    ~le_u32(add_u32(base_address, Len(data)), u32(FLASH_SIZE + PAGE_SIZE))

\* (first, a faulty variant that checks the length of the data alone)
too_large_mutIgnoresBase(base_address, data) == Len(data) > FLASH_SIZE

\* end_address > FLASH_SIZE, with end_address = base_address as usize +
\* data.len() (usize has 64 bits on the hosts of the tool: no wrap)
too_large(base_address, data) ==
    ~le_u32(add_u32(base_address, Len(data)), u32(FLASH_SIZE))

\* pages of an image: erased, zero, and erased but for the last byte
FlashPages ==
    { Fill(PAGE_SIZE, 255), Fill(PAGE_SIZE, 0),
      [ i \in 1 .. PAGE_SIZE |-> IF i = PAGE_SIZE THEN 7 ELSE 255 ] }

\* what follows the full pages of an image: nothing, an erased byte, a
\* short page that is not erased
FlashTails == { << >>, << 255 >>, << 255, 1 >> }

RECURSIVE FullPages(_)
\* the images of n full pages
FullPages(n) ==
    IF n = 0 THEN { << >> }
    ELSE { p \o q : p \in FlashPages, q \in FullPages(n - 1) }

FlashData ==
    { p \o t : p \in UNION { FullPages(n) : n \in 0 .. MaxPages }, t \in FlashTails }

\* base addresses: the start of flash, its second page, its last page, its
\* end, and the last u32
FlashBases ==
    { u32(0), u32(PAGE_SIZE), u32(FLASH_SIZE - PAGE_SIZE), u32(FLASH_SIZE),
      [ hi |-> U16 - 1, lo |-> U16 - 1 ] }

FlashInputs == [ base_address : FlashBases, data : FlashData ]

FlashInit ==
    /\ FirmwareIdle /\ McpOff /\ HexOff /\ TwiOff /\ KeymapOff
    /\ fpc = "flash"
    /\ fin \in FlashInputs
    /\ fk = 0
    /\ xfers = << >>
    /\ fres = Unused
    /\ cli = Unused

\* what flash returns
FlashErr(why) == [ kind |-> "err", why |-> why ]
FlashOk == [ kind |-> "ok", why |-> "none" ]

\* (first, a faulty variant that ignores the error of write_page)
after_write_page_mutIgnoreError(usb_ok, page_idx) ==
    [ fpc |-> "loop", fk |-> page_idx + 1, failed |-> FALSE ]

\* write_page(&handle, &buf).with_context(..)?: on Ok the loop goes on with
\* the next chunk, on Err flash returns the error
after_write_page(usb_ok, page_idx) ==
    IF usb_ok THEN [ fpc |-> "loop", fk |-> page_idx + 1, failed |-> FALSE ]
    ELSE [ fpc |-> "done", fk |-> page_idx, failed |-> TRUE ]

\* flash up to the page loop: open_device, which may fail, and the size check
FlashOpen ==
    /\ fpc = "flash"
    /\ \E opened \in BOOLEAN :
          IF ~opened
          THEN fres' = FlashErr("open") /\ fpc' = "done"
          ELSE IF too_large(fin.base_address, fin.data)
          THEN fres' = FlashErr("too large") /\ fpc' = "done"
          ELSE fres' = fres /\ fpc' = "loop"
    /\ UNCHANGED << fin, fk, xfers, cli, notFlashVars >>

\* one iteration of the page loop: skip an erased page, or write_page,
\* which may fail and then ends flash.  An entry of xfers holds the control
\* transfer, whether it succeeded, the function that sent it and the address
\* that function was given
FlashPage ==
    /\ fpc = "loop"
    /\ fk < num_chunks(fin.data)
    /\ LET c == chunk(fin.data, fk)
           address == as_usize(fin.base_address) + fk * PAGE_SIZE
       IN  IF all_erased(c)
           THEN fk' = fk + 1 /\ UNCHANGED << xfers, fres, fpc >>
           ELSE \E usb_ok \in BOOLEAN :
                  LET n == after_write_page(usb_ok, fk)
                  IN  /\ xfers' = Append(xfers,
                                    [ xfer |-> SetReport(build_page_buffer(address, c).buf),
                                      ok |-> usb_ok, call |-> "write_page",
                                      address |-> address ])
                      /\ fk' = n.fk
                      /\ fpc' = n.fpc
                      /\ fres' = IF n.failed THEN FlashErr("write") ELSE fres
    /\ UNCHANGED << fin, cli, notFlashVars >>

\* after the loop: reboot, whose transfer error is ignored, and Ok(())
FlashReboot ==
    /\ fpc = "loop"
    /\ fk = num_chunks(fin.data)
    /\ \E usb_ok \in BOOLEAN :
          xfers' = Append(xfers, [ xfer |-> SetReport(reboot_buf), ok |-> usb_ok,
                                   call |-> "reboot",
                                   address |-> HALFKAY_REBOOT_ADDRESS ])
    /\ fres' = FlashOk
    /\ fpc' = "done"
    /\ UNCHANGED << fin, fk, cli, notFlashVars >>

FlashNext == FlashOpen \/ FlashPage \/ FlashReboot

SpecFlash == FlashInit /\ [][FlashNext]_vars

----------------------------------------------------------------------------
(* Claims about flash, under SpecFlash.                                    *)

\* the address a transfer's payload starts with
XferAddress(t) == t.xfer.buf[1] + 256 * t.xfer.buf[2]

IsSentinel(t) == XferAddress(t) = HALFKAY_REBOOT_ADDRESS

\* base_address + len(data) > 32768
BeyondFlash ==
    \/ fin.base_address.hi > 0
    \/ fin.base_address.lo + Len(fin.data) > FLASH_SIZE

\* C22: flash fails whenever base_address + len(data) > 32768, and then
\* sends no transfer, neither a page write nor the reboot sentinel.
C22_TooLarge ==
    BeyondFlash =>
        /\ xfers = << >>
        /\ fpc = "done" => fres.kind = "err"

\* flash has failed on an image that ends one byte beyond the flash, for
\* its size
C22_Witness ==
    /\ fpc = "done" /\ fres = FlashErr("too large")
    /\ fin.base_address = u32(FLASH_SIZE - PAGE_SIZE)
    /\ Len(fin.data) = PAGE_SIZE + 1

\* the page-write transfers sent so far: all but the reboot sentinel
PageWrites == SelectSeq(xfers, LAMBDA t : ~IsSentinel(t))

\* how many chunks the page loop has dealt with: fk, and the chunk whose
\* write failed
ChunksDone == IF fpc = "done" /\ fres = FlashErr("write") THEN fk + 1 ELSE fk

\* the chunks among the first n that hold a byte other than 0xFF
Programmed(n) ==
    { k \in 0 .. n - 1 : \E i \in DOMAIN chunk(fin.data, k) : chunk(fin.data, k)[i] # 255 }

\* C23: of the consecutive 128-byte chunks of the image the page loop has
\* dealt with, exactly those holding a byte other than 0xFF have a
\* page-write transfer, one each and in ascending order, with payload
\* build_page_buffer(base_address + 128 * k, chunk k); when flash has
\* succeeded the loop has dealt with every chunk, and every byte of the
\* image other than 0xFF is in the transfer of its page at its offset.
C23_PageLoop ==
    (fpc \in { "loop", "done" } /\ ~BeyondFlash /\ fres # FlashErr("open")) =>
        LET w == PageWrites
            K == Programmed(ChunksDone)
            base_address == as_usize(fin.base_address)
        IN  /\ Len(w) = Cardinality(K)
            /\ \A j \in 1 .. Len(w) - 1 : XferAddress(w[j]) < XferAddress(w[j + 1])
            /\ \A j \in 1 .. Len(w) : \E k \in K :
                  w[j].xfer = SetReport(build_page_buffer(base_address + PAGE_SIZE * k,
                                                          chunk(fin.data, k)).buf)
            /\ fres = FlashOk =>
                  /\ ChunksDone = num_chunks(fin.data)
                  /\ \A i \in DOMAIN fin.data :
                        fin.data[i] # 255 =>
                          \E j \in 1 .. Len(w) :
                            /\ XferAddress(w[j])
                                 = base_address + PAGE_SIZE * ((i - 1) \div PAGE_SIZE)
                            /\ w[j].xfer.buf[3 + ((i - 1) % PAGE_SIZE)] = fin.data[i]

\* flash has succeeded on an image of an erased page between two pages that
\* are not: two page writes, the second for the third page
C23_Witness ==
    /\ fpc = "done" /\ fres = FlashOk
    /\ num_chunks(fin.data) = 3
    /\ Programmed(3) = { 0, 2 }
    /\ Len(PageWrites) = 2
    /\ XferAddress(PageWrites[2]) = as_usize(fin.base_address) + 2 * PAGE_SIZE

\* flash got through the page loop with no page write failing
NoWriteFailed ==
    /\ fpc = "done"
    /\ fres \notin { FlashErr("open"), FlashErr("too large") }
    /\ \A j \in 1 .. Len(xfers) : ~IsSentinel(xfers[j]) => xfers[j].ok

\* C24: in a flash run that gets through the page loop with no page write
\* failing, exactly one transfer with address 0xFFFF is sent, with a
\* payload of 130 bytes, it is the last transfer, flash returns success
\* whether or not that transfer reports an error, and no transfer is sent
\* after a transfer with address 0xFFFF.
C24_RebootSentinel ==
    /\ [](NoWriteFailed =>
            /\ fres = FlashOk
            /\ xfers # << >>
            /\ IsSentinel(xfers[Len(xfers)])
            /\ Len(xfers[Len(xfers)].xfer.buf) = 2 + PAGE_SIZE
            /\ \A j \in 1 .. Len(xfers) - 1 : ~IsSentinel(xfers[j]))
    /\ [][ (xfers # << >> /\ IsSentinel(xfers[Len(xfers)])) => xfers' = xfers ]_vars

\* flash has returned success after a page write and a reboot transfer
\* that reported an error
C24_Witness ==
    /\ fpc = "done" /\ fres = FlashOk
    /\ Len(xfers) = 2
    /\ xfers[1].ok /\ ~IsSentinel(xfers[1])
    /\ IsSentinel(xfers[2]) /\ ~xfers[2].ok

----------------------------------------------------------------------------
(* SpecCli: the Flash command of main from the first detect on: detect,    *)
(* reboot_to_bootloader, the polls of detect, flash.                       *)
(* src/ergodox-cli/src/main.rs                                             *)

\* how often main polls detect after the reboot request
POLL_LIMIT == 50

\* what detect and reboot_to_bootloader return: Ok(true), Ok(false), Err
UsbAnswers == { "true", "false", "err" }

\* (first, a faulty variant that goes on to flash whatever detect saw)
after_detect_mutFlashAnyway(found) ==
    IF found = "err" THEN "done" ELSE "flash"

\* where main goes after the first detect
after_detect(found) ==
    CASE found = "true"  -> "flash"
      [] found = "false" -> "reboot"
      [] OTHER           -> "done"

\* what main ends with: the error of a call, or process::exit(1)
MainErr(why) == [ kind |-> "err", why |-> why ]
Exit1(why) == [ kind |-> "exit", code |-> 1, why |-> why ]

\* the images of SpecCli: a page and a short page, an erased page, and an
\* image that does not fit the flash
CliInputs ==
    { [ base_address |-> u32(0), data |-> Fill(PAGE_SIZE, 0) \o << 255, 1 >> ],
      [ base_address |-> u32(PAGE_SIZE), data |-> Fill(PAGE_SIZE, 255) ],
      [ base_address |-> u32(FLASH_SIZE), data |-> << 1 >> ] }

CliInit ==
    /\ FirmwareIdle /\ McpOff /\ HexOff /\ TwiOff /\ KeymapOff
    /\ fpc = "main"
    /\ fin \in CliInputs
    /\ fk = 0
    /\ xfers = << >>
    /\ fres = Unused
    /\ cli = [ detects |-> 0, first |-> "none", last |-> "none",
               request |-> "none", polls |-> 0 ]

\* cli after a detect call that returned found
Detected(found) ==
    [ cli EXCEPT !.detects = @ + 1,
                 !.first = IF cli.detects = 0 THEN found ELSE @,
                 !.last = found ]

\* if !halfkay::detect()?
MainDetect ==
    /\ fpc = "main"
    /\ \E found \in UsbAnswers :
          /\ cli' = Detected(found)
          /\ fpc' = after_detect(found)
          /\ fres' = IF found = "err" THEN MainErr("detect") ELSE fres
    /\ UNCHANGED << fin, fk, xfers, notFlashVars >>

\* if halfkay::reboot_to_bootloader()?: the vendor request is sent when a
\* running keyboard is found
MainReboot ==
    /\ fpc = "reboot"
    /\ \E found \in UsbAnswers :
          /\ cli' = [ cli EXCEPT !.request = found ]
          /\ CASE found = "true"  -> fpc' = "poll" /\ fres' = fres
               [] found = "false" -> fpc' = "done" /\ fres' = Exit1("keyboard not found")
               [] OTHER           -> fpc' = "done" /\ fres' = MainErr("reboot")
    /\ UNCHANGED << fin, fk, xfers, notFlashVars >>

\* one iteration of for _ in 0..50: sleep, detect; after the last one,
\* if !found
MainPoll ==
    /\ fpc = "poll"
    /\ cli.polls < POLL_LIMIT
    /\ \E found \in UsbAnswers :
          /\ cli' = [ Detected(found) EXCEPT !.polls = @ + 1 ]
          /\ CASE found = "true" -> fpc' = "flash" /\ fres' = fres
               [] found = "err"  -> fpc' = "done" /\ fres' = MainErr("detect")
               [] OTHER ->
                    IF cli.polls + 1 = POLL_LIMIT
                    THEN fpc' = "done" /\ fres' = Exit1("bootloader not detected")
                    ELSE fpc' = "poll" /\ fres' = fres
    /\ UNCHANGED << fin, fk, xfers, notFlashVars >>

CliNext ==
    MainDetect \/ MainReboot \/ MainPoll \/ FlashOpen \/ FlashPage \/ FlashReboot

SpecCli == CliInit /\ [][CliNext]_vars

\* C25: flash is called, and transfers are sent to the HalfKay device, only
\* after a detect call has returned true; the reboot request is made only
\* if the first detect returned false; after a reboot request that found
\* the keyboard detect is polled at most 50 times; if HalfKay has not
\* appeared by then, or no running keyboard is found, main exits with a
\* non-zero code and no page write has been sent.
C25_Orchestration ==
    /\ (fpc \in { "flash", "loop" } \/ xfers # << >>) => cli.last = "true"
    /\ cli.request # "none" => (cli.first = "false" /\ cli.detects >= 1)
    /\ cli.polls > 0 => cli.request = "true"
    /\ cli.polls <= POLL_LIMIT /\ cli.detects <= 1 + cli.polls
    /\ (fpc = "done" /\ cli.request = "false") =>
          (fres.kind = "exit" /\ fres.code # 0 /\ xfers = << >>)
    /\ (fpc = "done" /\ cli.polls = POLL_LIMIT /\ cli.last = "false") =>
          (fres.kind = "exit" /\ fres.code # 0 /\ xfers = << >>)
    /\ ~(fpc = "poll" /\ cli.polls = POLL_LIMIT)

\* HalfKay appeared at the last of the 50 polls and the image was flashed
C25_Witness ==
    /\ fpc = "done" /\ fres = FlashOk
    /\ cli.first = "false" /\ cli.request = "true"
    /\ cli.polls = POLL_LIMIT /\ cli.last = "true"
    /\ Len(xfers) = 3

----------------------------------------------------------------------------
(* The keymap functions as pure functions, on the table of the firmware    *)
(* (src/firmware/src/keymap.rs) and on the table of the shared crate       *)
(* (src/ergodox-keymap/src/lib.rs), whose functions are the same text.     *)

\* LAYERS of the shared crate, SHARED_LAYERS[layer + 1][row + 1][col + 1]
SHARED_LAYERS ==
<<
  <<
     <<  53,  30,  31,  32,  33,  34,   0,  45,  35,  36,  37,  38,  39,  45 >>,
     <<  43,  20,  26,   8,  21,  23,  75,  48,  28,  24,  12,  18,  19,  49 >>,
     << 224,   4,  22,   7,   9,  10, 241,   0,  11,  13,  14,  15,  51,  52 >>,
     << 100,  29,  27,   6,  25,   5,  78,   0,  17,  16,  54,  55,  56,  49 >>,
     << 241, 226, 227,  46, 227,   0,   0,   0,   0,  80,  81,  82,  79, 241 >>,
     <<  41,   0,  40,  44,  74,  77,   0,   0,  76,   0, 229,  42,   0,   0 >>
  >>,
  <<
     <<   0,  58,  59,  60,  61,  62,   0,   0,  63,  64,  65,  66,  67,   0 >>,
     <<   0,   0,   0,   0,   0,   0,  68,  69,   0,   0,   0,   0,   0,   0 >>,
     <<   0,   0,   0,   0,   0,   0,   0,   0,  80,  81,  82,  79,   0,   0 >>,
     <<   0,   0,   0,   0,   0,   0,   0,   0,   0,   0,   0,   0,   0,   0 >>,
     <<   0,   0,   0,   0,   0,   0,   0,   0,   0,   0,   0,   0,   0,   0 >>,
     <<   0,   0,   0,   0,   0,   0,   0,   0,   0,   0,   0,   0,   0,   0 >>
  >>
>>

SharedKeyAt(l, row, col) == SHARED_LAYERS[l + 1][row + 1][col + 1]

RECURSIVE shared_resolve_from(_, _, _)
\* the loops of the shared crate's resolve_layer from their idx-th cell on
shared_resolve_from(ks, idx, active_layer) ==
    LET n == NextPressed(ks, idx)
    IN  IF n >= ROWS * COLS THEN active_layer
        ELSE LET kc  == SharedKeyAt(0, CellOf(n)[1], CellOf(n)[2])
                 hit == /\ is_layer(kc)
                        /\ layer_number(kc) > active_layer
                        /\ layer_number(kc) < NUM_LAYERS
             IN  shared_resolve_from(ks, n + 1,
                                     IF hit THEN layer_number(kc) ELSE active_layer)

shared_resolve_layer(ks) == shared_resolve_from(ks, 0, 0)

RECURSIVE shared_lookup(_, _, _)
shared_lookup(l, row, col) ==
    LET kc == SharedKeyAt(l, row, col)
    IN  IF ~is_transparent(kc) \/ l = 0 THEN kc ELSE shared_lookup(l - 1, row, col)

\* the table a call works on
TableKeyAt(table, l, row, col) ==
    IF table = "firmware" THEN KeyAt(l, row, col) ELSE SharedKeyAt(l, row, col)

RECURSIVE lookup_reads(_, _, _, _)
\* how many times the loop of lookup reads the table
lookup_reads(table, l, row, col) ==
    IF ~is_transparent(TableKeyAt(table, l, row, col)) \/ l = 0 THEN 1
    ELSE 1 + lookup_reads(table, l - 1, row, col)

Tables == { "firmware", "shared" }

----------------------------------------------------------------------------
(* SpecLayer: resolve_layer on a snapshot.                                 *)

\* how many cells of LayerCellOrder may be pressed in a snapshot of SpecLayer
NumLayerCells == 6

\* layer-hold keys of the two tables on both halves, a plain key, and a
\* key that layer 1 overrides
LayerCellOrder ==
    << <<3, 6>>, <<4, 13>>, <<0, 1>>, <<2, 6>>, <<3, 7>>, <<0, 8>>, <<4, 0>>, <<5, 2>> >>

LayerCells == FirstCells(LayerCellOrder, NumLayerCells)

LayerInit ==
    /\ FirmwareIdle /\ McpOff /\ HexOff /\ FlashOff /\ TwiOff
    /\ kpc = "in"
    /\ kin \in [ table : Tables, keys : { SnapshotOf(S) : S \in SUBSET LayerCells } ]
    /\ kout = Unused

\* let layer = keymap::resolve_layer(debounced)
ResolveLayer ==
    /\ kpc = "in"
    /\ kout' = IF kin.table = "firmware" THEN resolve_layer(kin.keys)
               ELSE shared_resolve_layer(kin.keys)
    /\ kpc' = "out"
    /\ UNCHANGED << kin, notKeymapVars >>

LayerNext == ResolveLayer

SpecLayer == LayerInit /\ [][LayerNext]_vars

\* the layers below NUM_LAYERS whose layer-hold code some pressed cell
\* holds on layer 0 of the table
HeldLayers(table, ks) ==
    { n \in 0 .. NUM_LAYERS - 1 :
        \E cell \in Cells :
            ks[cell] /\ TableKeyAt(table, 0, cell[1], cell[2]) = 240 + n }

\* C26: resolve_layer returns the highest layer n below NUM_LAYERS whose
\* layer-hold code some pressed cell holds on layer 0, and 0 when there is
\* none; the result is below NUM_LAYERS.
C26_ResolveLayer ==
    kpc = "out" =>
        /\ kout \in 0 .. NUM_LAYERS - 1
        /\ kout \in HeldLayers(kin.table, kin.keys) \cup { 0 }
        /\ \A n \in HeldLayers(kin.table, kin.keys) : n <= kout

\* resolve_layer returned 1 on the firmware's table for a snapshot that
\* holds a layer-1 key of the right half and a plain key
C26_Witness ==
    /\ kpc = "out" /\ kout = 1
    /\ kin.table = "firmware"
    /\ kin.keys[<<3, 7>>] /\ kin.keys[<<0, 1>>] /\ ~kin.keys[<<3, 6>>]

----------------------------------------------------------------------------
(* SpecLookup: lookup on a layer and a cell.                               *)

LookupInit ==
    /\ FirmwareIdle /\ McpOff /\ HexOff /\ FlashOff /\ TwiOff
    /\ kpc = "in"
    /\ kin \in [ table : Tables, layer : 0 .. NUM_LAYERS - 1, cell : Cells ]
    /\ kout = Unused

\* let kc = crate::keymap::lookup(layer, row, col)
Lookup ==
    /\ kpc = "in"
    /\ kout' = [ kc |-> IF kin.table = "firmware"
                        THEN lookup(kin.layer, kin.cell[1], kin.cell[2])
                        ELSE shared_lookup(kin.layer, kin.cell[1], kin.cell[2]),
                 reads |-> lookup_reads(kin.table, kin.layer, kin.cell[1], kin.cell[2]) ]
    /\ kpc' = "out"
    /\ UNCHANGED << kin, notKeymapVars >>

LookupNext == Lookup

SpecLookup == LookupInit /\ [][LookupNext]_vars

\* the layers up to l on which the cell is not transparent
Opaque(table, l, cell) ==
    { n \in 0 .. l : TableKeyAt(table, n, cell[1], cell[2]) # 0 }

\* C27: lookup(L, r, c) reads the table at most L + 1 times and returns the
\* keycode of the highest layer up to L on which the cell is not
\* transparent, or the transparent code when the cell is transparent on
\* every layer up to L.
C27_Lookup ==
    kpc = "out" =>
        LET o == Opaque(kin.table, kin.layer, kin.cell)
        IN  /\ kout.reads <= kin.layer + 1
            /\ IF o = {} THEN kout.kc = 0
               ELSE kout.kc = TableKeyAt(kin.table, LastOf(o), kin.cell[1], kin.cell[2])

\* lookup on layer 1 fell through to layer 0 for a cell that is
\* transparent on layer 1, with two reads
C27_Witness ==
    /\ kpc = "out" /\ kin.table = "firmware" /\ kin.layer = 1
    /\ kin.cell = <<2, 1>>
    /\ kout.reads = 2 /\ kout.kc = 4

----------------------------------------------------------------------------
(* SpecKeycode: the classification of a keycode byte.                      *)

KeycodeInit ==
    /\ FirmwareIdle /\ McpOff /\ HexOff /\ FlashOff /\ TwiOff
    /\ kpc = "in"
    /\ kin \in 0 .. 255
    /\ kout = Unused

\* is_modifier, modifier_bit, is_layer, is_transparent of the code, and
\* layer_number of a layer code
Classify ==
    /\ kpc = "in"
    /\ kout' = [ is_modifier |-> is_modifier(kin),
                 modifier_bit |-> modifier_bit(kin),
                 is_layer |-> is_layer(kin),
                 layer_number |-> IF is_layer(kin) THEN << layer_number(kin) >> ELSE << >>,
                 is_transparent |-> is_transparent(kin) ]
    /\ kpc' = "out"
    /\ UNCHANGED << kin, notKeymapVars >>

KeycodeNext == Classify

SpecKeycode == KeycodeInit /\ [][KeycodeNext]_vars

\* C28: for every 8-bit code v, is_modifier holds exactly for 0xE0 .. 0xE7
\* and then modifier_bit is 1 << (v - 0xE0), modifier_bit is 0 for every
\* other code; is_layer holds exactly for 0xF0 .. 0xFF and then
\* layer_number is v - 0xF0; is_transparent holds exactly for 0x00.
C28_Classification ==
    kpc = "out" =>
        /\ kout.is_modifier = (kin \in 224 .. 231)
        /\ \A b \in 0 .. 7 : kin = 224 + b => kout.modifier_bit = 2 ^ b
        /\ kin \notin 224 .. 231 => kout.modifier_bit = 0
        /\ kout.is_layer = (kin \in 240 .. 255)
        /\ \A n \in 0 .. 15 : kin = 240 + n => kout.layer_number = << n >>
        /\ kout.is_transparent = (kin = 0)

\* the right GUI key was classified: a modifier with bit 7
C28_Witness ==
    /\ kpc = "out" /\ kin = 231
    /\ kout.is_modifier /\ kout.modifier_bit = 128 /\ ~kout.is_layer

----------------------------------------------------------------------------
(* The TWI peripheral under the expander driver: the busy-wait loops, the  *)
(* bus steps and the transactions built from them, with the events they    *)
(* put on the bus.  src/firmware/src/i2c.rs                                *)

TW_START == 8
TW_REP_START == 16
TW_MT_SLA_ACK == 24
TW_MT_DATA_ACK == 40
TW_MR_SLA_ACK == 64
TW_MR_DATA_NACK == 88

\* twi_status with TWINT clear: TWSR & 0xF8 reads "no relevant state"
TW_NO_INFO == 248

\* `let mut timeout: u16 = 0xFFFF` of every wait loop
TWI_TIMEOUT == 65535

\* a number of polls after which a flag changes that stands for "never"
NeverSets == 2 ^ 17

\* (first, a faulty variant of the wait loop without the timeout counter: it
\* polls until the flag changes, and never returns when it never does)
wait_twint_mutNoTimeout(k) == [ iters |-> k, hung |-> k >= NeverSets ]

\* Mcp23018::wait_twint when TWINT sets after k polls: the loop decrements
\* timeout once per poll that finds the flag clear and returns when it is 0.
\* iters = the polls made, hung = the loop never returns
wait_twint(k) == [ iters |-> Min(k, TWI_TIMEOUT), hung |-> FALSE ]

\* the loop of i2c_stop (and of probe) when TWSTO clears after k polls
wait_twsto(k) == [ iters |-> Min(k, TWI_TIMEOUT), hung |-> FALSE ]

\* the bus of one call: d = the address an expander answers at, wait = the
\* polls a flag takes to change, fault = << transaction, step >> of the call
\* that gets an error status (<< 0, 0 >> = none)
TwiStuck(e) == e.wait >= TWI_TIMEOUT

\* the status a step that is not acknowledged reads
TwiRefused(kind) ==
    CASE kind = "START" -> 0
      [] kind = "SLA_W" -> 32
      [] kind = "DATA"  -> 48
      [] kind = "SLA_R" -> 72
      [] kind = "READ"  -> 56

\* the status a step that goes well reads; rs = the START is a repeated one
TwiGranted(kind, rs) ==
    CASE kind = "START" -> IF rs THEN TW_REP_START ELSE TW_START
      [] kind = "SLA_W" -> TW_MT_SLA_ACK
      [] kind = "DATA"  -> TW_MT_DATA_ACK
      [] kind = "SLA_R" -> TW_MR_SLA_ACK
      [] kind = "READ"  -> TW_MR_DATA_NACK

\* the TWSR status after step s (of the given kind) of transaction c.txns
\* addressed to addr
TwiStatus(c, e, addr, kind, s) ==
    IF TwiStuck(e) THEN TW_NO_INFO
    ELSE IF e.fault = << c.txns, s >> THEN TwiRefused(kind)
    ELSE IF kind # "START" /\ e.d # addr THEN TwiRefused(kind)
    ELSE TwiGranted(kind, s > 1)

\* an event on the bus, with the polls its wait loop made
TwiEvent(c, name, w) ==
    [ c EXCEPT !.log = Append(@, [ op |-> name, iters |-> w.iters ]),
               !.hung = w.hung ]

\* Mcp23018::i2c_start; c = the call so far, k = polls until TWINT sets
i2c_start(c, k, status) ==
    IF c.hung THEN [ c |-> c, ok |-> FALSE ]
    ELSE LET w == wait_twint(k)
         IN  [ c  |-> TwiEvent(c, "START", w),
               ok |-> ~w.hung /\ status \in { TW_START, TW_REP_START } ]

\* Mcp23018::i2c_write
i2c_write(c, k, status) ==
    IF c.hung THEN [ c |-> c, ok |-> FALSE ]
    ELSE LET w == wait_twint(k)
         IN  [ c  |-> TwiEvent(c, "WRITE", w),
               ok |-> /\ ~w.hung
                      /\ status \in { TW_MT_SLA_ACK, TW_MT_DATA_ACK,
                                      TW_MR_SLA_ACK } ]

\* Mcp23018::i2c_read_nack
i2c_read_nack(c, k, status) ==
    IF c.hung THEN [ c |-> c, ok |-> FALSE ]
    ELSE LET w == wait_twint(k)
         IN  [ c  |-> TwiEvent(c, "READ", w),
               ok |-> ~w.hung /\ status = TW_MR_DATA_NACK ]

\* Mcp23018::i2c_stop: sets TWSTO and waits for it to clear
i2c_stop(c, k) ==
    IF c.hung THEN c ELSE TwiEvent(c, "STOP", wait_twsto(k))

\* one step of a transaction
TwiStep(c, e, addr, kind, s) ==
    LET status == TwiStatus(c, e, addr, kind, s)
    IN  CASE kind = "START" -> i2c_start(c, e.wait, status)
          [] kind = "READ"  -> i2c_read_nack(c, e.wait, status)
          [] OTHER          -> i2c_write(c, e.wait, status)

RECURSIVE TwiSteps(_, _, _, _, _)
\* the steps kinds[s], kinds[s + 1], ... chained with `?`: the first that
\* returns Err ends the chain
TwiSteps(c, e, addr, kinds, s) ==
    IF s > Len(kinds) THEN [ c |-> c, ok |-> TRUE ]
    ELSE LET r == TwiStep(c, e, addr, kinds[s], s)
         IN  IF r.ok THEN TwiSteps(r.c, e, addr, kinds, s + 1) ELSE r

\* a transaction begins: the next one of the call
TwiBegin(c, name) ==
    IF c.hung THEN c
    ELSE [ c EXCEPT !.txns = @ + 1,
                    !.log = Append(@, [ op |-> name, iters |-> 0 ]) ]

\* Mcp23018::write_register on the bus: START, SLA+W, register, value, and
\* i2c_stop when none of them returned Err
twi_write_register(c, e, addr) ==
    LET r == TwiSteps(TwiBegin(c, "write_register"), e, addr,
                      << "START", "SLA_W", "DATA", "DATA" >>, 1)
    IN  IF r.ok THEN [ c |-> i2c_stop(r.c, e.wait), ok |-> TRUE ] ELSE r

\* Mcp23018::read_register on the bus: START, SLA+W, register, repeated
\* START, SLA+R, read, and i2c_stop when none of them returned Err
twi_read_register(c, e, addr, val) ==
    LET r == TwiSteps(TwiBegin(c, "read_register"), e, addr,
                      << "START", "SLA_W", "DATA", "START", "SLA_R", "READ" >>, 1)
    IN  IF r.ok THEN [ c |-> i2c_stop(r.c, e.wait), ok |-> TRUE, val |-> val ]
        ELSE [ c |-> r.c, ok |-> FALSE, val |-> val ]

\* Mcp23018::probe on the bus: START && SLA+W, then always i2c_stop and one
\* more wait for TWSTO, which polls only while TWSTO is still set
twi_probe(c, e, addr) ==
    LET r  == TwiSteps(TwiBegin(c, "probe"), e, addr, << "START", "SLA_W" >>, 1)
        c1 == i2c_stop(r.c, e.wait)
        c2 == IF c1.hung THEN c1
              ELSE TwiEvent(c1, "WAIT_TWSTO",
                            wait_twsto(IF TwiStuck(e) THEN e.wait ELSE 0))
    IN  [ c |-> c2, ok |-> r.ok ]

RECURSIVE twi_configure_from(_, _, _, _)
\* the register writes n .. 4 of configure, chained with `?`
twi_configure_from(c, e, addr, n) ==
    IF n > 4 THEN [ c |-> c, ok |-> TRUE ]
    ELSE LET w == twi_write_register(c, e, addr)
         IN  IF w.ok THEN twi_configure_from(w.c, e, addr, n + 1)
             ELSE [ c |-> w.c, ok |-> FALSE ]

\* Mcp23018::configure on the bus
twi_configure(c, e, addr) == twi_configure_from(c, e, addr, 1)

\* a call that has put nothing on the bus yet
TwiCall == [ log |-> << >>, txns |-> 0, hung |-> FALSE ]

RECURSIVE twi_init_from(_, _, _, _)
\* the loop of Mcp23018::init from candidate offset on, on the bus
twi_init_from(m, c, e, offset) ==
    IF offset >= 8 \/ c.hung THEN [ m |-> m, c |-> c, found |-> NoDev ]
    ELSE LET candidate == MCP23018_BASE_ADDR + offset
             m1 == [ m EXCEPT !.addr = candidate ]
             p  == twi_probe(c, e, candidate)
             g  == twi_configure(p.c, e, candidate)
         IN  IF ~p.ok THEN twi_init_from(m1, p.c, e, offset + 1)
             ELSE IF g.ok /\ ~g.c.hung
             THEN [ m |-> [ m1 EXCEPT !.initialized = TRUE ], c |-> g.c,
                    found |-> candidate ]
             ELSE twi_init_from(m1, g.c, e, offset + 1)

\* Mcp23018::init on the bus
twi_init(m, e) == twi_init_from(m, TwiCall, e, 0)

\* Mcp23018::try_reinit on the bus
twi_try_reinit(m, e) ==
    IF ~m.initialized
    THEN LET g == twi_configure(TwiCall, e, m.addr)
         IN  [ m |-> [ m EXCEPT !.errors = 0, !.initialized = g.ok ], c |-> g.c ]
    ELSE [ m |-> m, c |-> TwiCall ]

\* Mcp23018::scan_column on the bus; val = what port B holds
twi_scan_column(m, e, col, val) ==
    IF ~m.initialized THEN [ m |-> m, c |-> TwiCall, ret |-> 255 ]
    ELSE LET w == twi_write_register(TwiCall, e, m.addr)
             r == twi_read_register(w.c, e, m.addr, val)
         IN  IF ~w.ok THEN [ m |-> mark_error(m), c |-> w.c, ret |-> 255 ]
             ELSE IF r.ok
             THEN [ m |-> [ m EXCEPT !.errors = 0 ], c |-> r.c, ret |-> r.val ]
             ELSE [ m |-> mark_error(m), c |-> r.c, ret |-> 255 ]

----------------------------------------------------------------------------
(* SpecTwi: the driver's entry points called on a bus that answers in      *)
(* time, late, or never, with an expander plugged or not.  bus.log = the   *)
(* events of the last call, bus.prev = the last event before that call.    *)

\* the polls a flag takes: at once, just within the timeout, never
TwiWaits == { 1, TWI_TIMEOUT - 1, NeverSets }

\* the step of a call that gets an error status: none, or a step of its
\* first or second transaction
TwiFaults == { << 0, 0 >> } \cup { << n, s >> : n \in 1 .. 2, s \in 1 .. 6 }

TwiDevs == { NoDev, MCP23018_BASE_ADDR, MCP23018_BASE_ADDR + 7 }

TwiBuses == [ d : { dev }, wait : TwiWaits, fault : TwiFaults ]

\* the transactions of the driver
TwiTxns == { "write_register", "read_register", "probe" }

TwiInit ==
    /\ FirmwareIdle /\ HexOff /\ FlashOff /\ KeymapOff
    /\ mpc = "boot"
    /\ mcp = Mcp23018_new
    /\ dev \in TwiDevs
    /\ mcall = [ fn |-> "new" ]
    /\ devCfg = Unused /\ streak = Unused /\ late = Unused
    /\ closed = Unused /\ snapshot = Unused
    /\ bus = [ log |-> << >>, prev |-> "none" ]

\* the bus after a call that put the events of c on it
TwiAfter(c) ==
    [ log  |-> c.log,
      prev |-> IF bus.log = << >> THEN bus.prev ELSE bus.log[Len(bus.log)].op ]

\* a call returns, or its wait loop never does
TwiReturn(c) == mpc' = IF c.hung THEN "hung" ELSE "run"

\* mcp.init(&dp.TWI), called once by main before the loop
TwiCallInit ==
    /\ mpc = "boot"
    /\ \E e \in TwiBuses :
          LET r == twi_init(mcp, e)
          IN  /\ mcp' = r.m
              /\ bus' = TwiAfter(r.c)
              /\ TwiReturn(r.c)
              /\ mcall' = [ fn |-> "init", was |-> mcp, stuck |-> TwiStuck(e),
                            fault |-> e.fault, ret |-> r.found ]
    /\ UNCHANGED << dev, devCfg, streak, late, closed, snapshot, notTwiVars >>

\* mcp.try_reinit(&dp.TWI)
TwiCallTryReinit ==
    /\ mpc = "run"
    /\ \E e \in TwiBuses :
          LET r == twi_try_reinit(mcp, e)
          IN  /\ mcp' = r.m
              /\ bus' = TwiAfter(r.c)
              /\ TwiReturn(r.c)
              /\ mcall' = [ fn |-> "try_reinit", was |-> mcp,
                            stuck |-> TwiStuck(e), fault |-> e.fault,
                            ret |-> 0 ]
    /\ UNCHANGED << dev, devCfg, streak, late, closed, snapshot, notTwiVars >>

\* mcp.scan_column(&dp.TWI, col)
TwiCallScanColumn ==
    /\ mpc = "run"
    /\ \E e \in TwiBuses, col \in McpCols, val \in { 255, 254 } :
          LET r == twi_scan_column(mcp, e, col, val)
          IN  /\ mcp' = r.m
              /\ bus' = TwiAfter(r.c)
              /\ TwiReturn(r.c)
              /\ mcall' = [ fn |-> "scan_column", was |-> mcp,
                            stuck |-> TwiStuck(e), fault |-> e.fault,
                            ret |-> r.ret ]
    /\ UNCHANGED << dev, devCfg, streak, late, closed, snapshot, notTwiVars >>

\* the expander is unplugged, or plugged at another address
TwiPlug ==
    /\ mpc = "run"
    /\ dev' \in TwiDevs \ { dev }
    /\ UNCHANGED << mpc, mcp, mcall, bus, devCfg, streak, late, closed,
                    snapshot, notTwiVars >>

TwiNext == TwiCallInit \/ TwiCallTryReinit \/ TwiCallScanColumn \/ TwiPlug

SpecTwi == TwiInit /\ [][TwiNext]_vars

\* the events of the last call after the one event before them
TwiTrail == << bus.prev >> \o [ i \in 1 .. Len(bus.log) |-> bus.log[i].op ]

\* C29: on a bus where TWINT never sets and TWSTO never clears every wait
\* loop of the driver exits after at most 65535 polls, so init, try_reinit
\* and scan_column return; init then finds nothing, try_reinit leaves the
\* driver uninitialized, and scan_column yields 0xFF for the column.
C29_BoundedWaits ==
    /\ mpc # "hung"
    /\ \A i \in 1 .. Len(bus.log) : bus.log[i].iters <= TWI_TIMEOUT
    /\ (mpc = "run" /\ mcall.stuck) =>
          /\ mcall.fn = "scan_column" => mcall.ret = 255
          /\ mcall.fn = "init" => (mcall.ret = NoDev /\ ~mcp.initialized)
          /\ mcall.fn = "try_reinit" => (mcp.initialized = mcall.was.initialized)

\* a scan of an initialized driver on a stuck bus timed out and returned
C29_Witness ==
    /\ mpc = "run" /\ mcall.fn = "scan_column" /\ mcall.stuck
    /\ mcall.was.initialized /\ mcall.ret = 255
    /\ \E i \in 1 .. Len(bus.log) :
          bus.log[i].op = "START" /\ bus.log[i].iters = TWI_TIMEOUT

\* C30: every transaction of the driver (register write, register read,
\* probe) begins on a bus whose last event is a STOP that waited for TWSTO,
\* also after a transaction that aborted on an error status.
C30_StopBeforeNextStart ==
    \A i \in 2 .. Len(TwiTrail) :
       TwiTrail[i] \in TwiTxns =>
          TwiTrail[i - 1] \in { "none", "STOP", "WAIT_TWSTO" }

----------------------------------------------------------------------------
(* More claims about the Intel HEX parser, under SpecHex.                  *)

FirstOf(S) == CHOOSE x \in S : \A y \in S : x <= y

\* What the data records read from an input say: recs = their lines, abs =
\* the absolute address of each, dat = its data bytes, starts = the records
\* that do not continue the data record read before them (the first one,
\* and one whose address is not where the data of the one before ends),
\* segof = the number of the run of records each belongs to
RunTable(input) ==
    LET recs   == DataRecords(input)
        abs    == [ i \in recs |-> AbsAddr(input, i) ]
        dat    == [ i \in recs |-> RecordData(input[i]) ]
        prev   == [ i \in recs |-> { j \in recs : j < i } ]
        starts == { i \in recs :
                      \/ prev[i] = {}
                      \/ abs[i] # abs[LastOf(prev[i])] + Len(dat[LastOf(prev[i])]) }
        segof  == [ i \in recs |-> Cardinality({ j \in starts : j <= i }) ]
    IN  [ recs |-> recs, abs |-> abs, dat |-> dat, starts |-> starts,
          segof |-> segof ]

\* the data records of run k
RunOf(t, k) == { i \in t.recs : t.segof[i] = k }

RECURSIVE ConcatData(_, _)
\* the data of the records S, in file order
ConcatData(t, S) ==
    IF S = {} THEN << >>
    ELSE t.dat[FirstOf(S)] \o ConcatData(t, S \ { FirstOf(S) })

\* parse_hex returned the segments of the input
Parsed == hpc # "in" /\ hout.kind = "ok"

\* C31: a data record whose absolute address is the end of the last emitted
\* segment (the end of the data record read before it) is appended to that
\* segment, any other data record starts a new segment at the end of the
\* list: the segments are, in order of first appearance, the runs of data
\* records that each continue the one before, with the data of the run in
\* file order at the address of the run's first record.
C31_Coalescing ==
    Parsed =>
        LET t == RunTable(hin)
        IN  /\ Len(hout.segments) = Cardinality(t.starts)
            /\ \A k \in 1 .. Len(hout.segments) :
                  /\ hout.segments[k].data = ConcatData(t, RunOf(t, k))
                  /\ hout.segments[k].address = u32(t.abs[FirstOf(RunOf(t, k))])

\* two records were coalesced into the last segment after another segment
C31_Witness ==
    /\ Parsed /\ Len(hout.segments) = 2
    /\ Cardinality(RunOf(RunTable(hin), 2)) = 2
    /\ Len(hout.segments[2].data) = 3

\* the record passed the framing and checksum tests
Checked(l) == IsRecord(l) /\ WellFramed(l) /\ ByteSum(l) = 0

\* the bytes of the run of data record i that precede those of the record
OffsetInSegment(t, i) ==
    Len(ConcatData(t, { j \in RunOf(t, t.segof[i]) : j < i }))

\* C32: the absolute address of every data record is 16 times the value of
\* the most recent extended segment address record before it (0 without
\* one) plus the record's 16-bit offset; a type 0x02 record whose count is
\* not 2 fails, and so does a record of a type other than 0, 1, 2.
C32_Addresses ==
    hpc # "in" =>
        /\ hout.kind = "ok" =>
              LET t == RunTable(hin)
              IN  \A i \in t.recs :
                     add_u32(hout.segments[t.segof[i]].address,
                             OffsetInSegment(t, i))
                       = u32(t.abs[i])
        /\ \A i \in DOMAIN hin :
              (/\ Reached(hin, i) /\ Checked(hin[i])
               /\ \/ RecordType(hin[i]) \notin { 0, 1, 2 }
                  \/ (RecordType(hin[i]) = 2 /\ LineBytes(hin[i])[1] # 2))
                 => (hout.kind = "err" /\ hout.line = i)

\* a data record at offset 1 after an extended segment address record of
\* value 1 went to address 17
C32_Witness ==
    /\ Parsed
    /\ LET t == RunTable(hin)
       IN  \E i \in t.recs :
              /\ t.abs[i] = 17
              /\ hout.segments[t.segof[i]].address = u32(17)

\* the lines of the first end-of-file record that parse_hex reads
EndOfFile(input) ==
    { i \in DOMAIN input :
        Reached(input, i) /\ GoodRecord(input[i]) /\ RecordType(input[i]) = 1 }

\* C33: parse_hex stops at the first valid end-of-file record: it returns
\* the segments built from the records before it, and no line after it,
\* valid or malformed, changes the result or makes parse_hex fail.
C33_EndOfFile ==
    hpc # "in" =>
        \A i \in EndOfFile(hin) : hout = parse_hex(SubSeq(hin, 1, i - 1))

\* a data record, the end-of-file record, then a line that is no record
C33_Witness ==
    /\ Parsed /\ Len(hin) = 3 /\ 2 \in EndOfFile(hin)
    /\ ~hin[3].blank /\ ~GoodRecord(hin[3])
    /\ Len(hout.segments) = 1

----------------------------------------------------------------------------
(* More claims about flash, under SpecFlash.                               *)

\* the transfers sent by write_page
WritePageCalls == { j \in DOMAIN xfers : xfers[j].call = "write_page" }

\* a write_page transfer has failed
WriteFailed == \E j \in WritePageCalls : ~xfers[j].ok

\* C34: if a page-write control transfer fails, flash returns an error and
\* sends nothing after it, neither a page write nor the reboot sentinel: the
\* failed transfer is the last one and every transfer before it is a page
\* write that succeeded.
C34_WriteFailure ==
    /\ [](WriteFailed =>
            /\ fpc = "done" /\ fres.kind = "err"
            /\ ~xfers[Len(xfers)].ok
            /\ \A j \in DOMAIN xfers :
                  /\ xfers[j].call = "write_page" /\ ~IsSentinel(xfers[j])
                  /\ j < Len(xfers) => xfers[j].ok)
    /\ [][ WriteFailed => (xfers' = xfers /\ fres' = fres) ]_vars

\* the second page write of an image failed after the first succeeded
C34_Witness ==
    /\ fpc = "done" /\ fres = FlashErr("write")
    /\ Len(xfers) = 2 /\ xfers[1].ok /\ ~xfers[2].ok
    /\ fk < num_chunks(fin.data) - 1

\* C35: every page-write transfer carries an address strictly below 32768,
\* which its two address bytes hold without truncation, and none carries
\* the address 0xFFFF of the reboot sentinel.
C35_SentinelDistinct ==
    \A j \in WritePageCalls :
        /\ xfers[j].address < FLASH_SIZE
        /\ XferAddress(xfers[j]) = xfers[j].address
        /\ XferAddress(xfers[j]) # HALFKAY_REBOOT_ADDRESS

\* the last page of the flash was written, and the sentinel sent after it
C35_Witness ==
    /\ fpc = "done" /\ fres = FlashOk
    /\ \E j \in WritePageCalls : xfers[j].address = FLASH_SIZE - PAGE_SIZE
    /\ xfers[Len(xfers)].call = "reboot" /\ IsSentinel(xfers[Len(xfers)])

----------------------------------------------------------------------------
(* More claims about the debouncer, under SpecDeb.                         *)

\* the largest value of the u8 counter
U8_MAX == 255

\* C36: after every update call every cell's counter is between 0 and 4,
\* strictly below the threshold 5, so the increment of the 8-bit counter
\* never overflows, whatever the raw snapshots are.
C36_CounterBound ==
    \A cell \in Cells :
        /\ counters[cell] \in 0 .. DEBOUNCE_THRESHOLD - 1
        /\ counters[cell] + 1 <= U8_MAX

\* a pressed cell has read released four times in a row
C36_Witness ==
    \E cell \in DebCells :
        /\ state[cell] /\ counters[cell] = DEBOUNCE_THRESHOLD - 1
        /\ len[cell] = DEBOUNCE_THRESHOLD - 1 /\ ~lastp[cell]

----------------------------------------------------------------------------
(* More claims about the MCP23018 driver, under SpecMcp.                   *)

\* C37: in every state reached through new, init, try_reinit and
\* scan_column a driver that is marked initialized has an error counter
\* below 10; the counter never passes 10, and mark_error saturates at the
\* largest u8 instead of wrapping; try_reinit on an uninitialized driver
\* resets the counter to 0.
C37_DriverInvariant ==
    /\ mcp.initialized => mcp.errors < MCP_MAX_ERRORS
    /\ mcp.errors \in 0 .. MCP_MAX_ERRORS
    /\ \A e \in { U8_MAX - 1, U8_MAX } :
          mark_error([ mcp EXCEPT !.errors = e ]).errors = U8_MAX
    /\ (mcall.fn = "try_reinit" /\ ~mcall.was.initialized) => mcp.errors = 0

\* a driver taken offline by 10 errors was initialized again by try_reinit
C37_Witness ==
    /\ mcall.fn = "try_reinit"
    /\ ~mcall.was.initialized /\ mcall.was.errors = MCP_MAX_ERRORS
    /\ mcp.initialized /\ mcp.errors = 0

----------------------------------------------------------------------------
(* SpecHalf: the scanning side of the main loop: the driver, matrix::scan, *)
(* the debouncer and build_report, with an expander that is plugged and    *)
(* unplugged and a bus with faults.  streak counts the loop iterations     *)
(* that began with the driver uninitialized since it last was initialized. *)
(* src/firmware/src/main.rs, i2c.rs, matrix.rs, debounce.rs                *)

\* cap of the count of iterations with the driver offline
MaxOffline == 6

\* the switches that close in SpecHalf: one of the expander's half and one
\* of the other half
HalfCells == { << 0, 0 >>, << 0, 7 >> }

\* the columns whose column write a bus fault hits in a scan of SpecHalf
HalfFaults == { {}, 0 .. COLS_PER_HALF - 1 }

\* the cells of the expander's half: columns 0 .. 6
LeftCells == { cell \in Cells : cell[2] < COLS_PER_HALF }

\* what port B reads per column with the switches S closed
HalfReadings(S) == [ col \in 0 .. COLS_PER_HALF - 1 |-> GpioB(S, col) ]

HalfInit ==
    /\ ReportIdle /\ DebInit /\ PairIdle /\ HistOff /\ UsbOff /\ FwIdle
    /\ HexOff /\ FlashOff /\ TwiOff /\ KeymapOff
    /\ mpc = "boot"
    /\ mcp = Mcp23018_new
    /\ dev \in { NoDev, MCP23018_BASE_ADDR }
    /\ devCfg = FALSE
    /\ mcall = [ fn |-> "new" ]
    /\ streak = 0
    /\ late = FALSE
    /\ closed = {}
    /\ snapshot = Unused

halfFrame ==
    << keys, layer, rpc, pairVars, histVars, usbVars, fwVars, hexVars, flashVars,
       twiVars, keymapVars, late >>

\* mcp.init(&dp.TWI)
HalfBoot ==
    /\ mpc = "boot"
    /\ \E cfault \in { 0, 2 } :
          LET r == Mcp23018_init(mcp, dev, 0, cfault)
          IN  /\ mcp' = r.m
              /\ devCfg' = (devCfg \/ r.written = 4)
              /\ mcall' = [ fn |-> "init", was |-> mcp ]
    /\ mpc' = "run"
    /\ UNCHANGED << dev, streak, closed, snapshot, state, counters, report,
                    halfFrame >>

\* the expander is unplugged or plugged: it powers up unconfigured
HalfPlug ==
    /\ mpc = "run"
    /\ dev' \in { NoDev, MCP23018_BASE_ADDR } \ { dev }
    /\ devCfg' = FALSE
    /\ mcall' = [ fn |-> "plug", was |-> mcp ]
    /\ UNCHANGED << mpc, mcp, streak, closed, snapshot, state, counters, report,
                    halfFrame >>

\* keys are pressed and released
HalfSwitches ==
    /\ mpc = "run"
    /\ \E S \in SUBSET HalfCells : S # closed /\ closed' = S
    /\ mcall' = [ fn |-> "switches", was |-> mcp ]
    /\ UNCHANGED << mpc, mcp, dev, devCfg, streak, snapshot, state, counters,
                    report, halfFrame >>

\* if reinit_counter == 0 { mcp.try_reinit(&dp.TWI) }
HalfTryReinit ==
    /\ mpc = "run"
    /\ \E cfault \in { 0, 2 } :
          LET r == try_reinit(mcp, dev, cfault)
          IN  /\ mcp' = r.m
              /\ devCfg' = (devCfg \/ r.written = 4)
              /\ streak' = IF r.m.initialized THEN 0 ELSE streak
              /\ mcall' = [ fn |-> "try_reinit", was |-> mcp ]
    /\ UNCHANGED << mpc, dev, closed, snapshot, state, counters, report,
                    halfFrame >>

\* the rest of a loop iteration: matrix::scan, debouncer.update,
\* resolve_layer and build_report
HalfScan ==
    /\ mpc = "run"
    /\ \E bad \in HalfFaults :
          LET r == scan(closed, mcp, dev, bad, HalfReadings(closed))
              d == update([ state |-> state, counters |-> counters ], r.state)
          IN  /\ mcp' = r.m
              /\ snapshot' = r.state
              /\ state' = d.state
              /\ counters' = d.counters
              /\ report' = ReportOf(d.state)
              /\ mcall' = [ fn |-> "scan", was |-> mcp ]
    /\ streak' = IF mcp.initialized THEN 0 ELSE Min(streak + 1, MaxOffline)
    /\ UNCHANGED << mpc, dev, devCfg, closed, halfFrame >>

HalfNext == HalfBoot \/ HalfPlug \/ HalfSwitches \/ HalfTryReinit \/ HalfScan

SpecHalf == HalfInit /\ [][HalfNext]_vars

\* the debounced state without the keys of the expander's half
RightOnly(st) == [ cell \in Cells |-> st[cell] /\ cell \notin LeftCells ]

\* C38: a scan made while the driver is uninitialized reports every cell of
\* columns 0..6 as not pressed; so after 5 scans with the driver offline
\* every debounced cell of columns 0..6 is released, and stays so as long as
\* the driver is not initialized again, and the report built is that of the
\* other half's keys alone.
C38_NoPhantomKeys ==
    /\ (mcall.fn = "scan" /\ ~mcall.was.initialized) =>
          \A cell \in LeftCells : snapshot[cell]
    /\ streak >= DEBOUNCE_THRESHOLD =>
          /\ ~mcp.initialized
          /\ \A cell \in LeftCells : ~state[cell]
          /\ report = ReportOf(RightOnly(state))

\* the driver went offline after 10 errors; five scans later the expander is
\* back and configured and a key of its half is held down, and the key is
\* not reported
C38_Witness ==
    /\ streak = DEBOUNCE_THRESHOLD /\ mcall.fn = "scan"
    /\ mcp.errors = MCP_MAX_ERRORS
    /\ dev = mcp.addr /\ devCfg
    /\ << 0, 0 >> \in closed /\ << 0, 7 >> \in closed
    /\ ~state[<< 0, 0 >>] /\ state[<< 0, 7 >>]
    /\ report # KeyboardReport_empty

----------------------------------------------------------------------------
(* SpecLive: main() of the firmware as in SpecFw, without the history of   *)
(* the raw input, and with the loop always taking its next step.           *)
(* src/firmware/src/main.rs                                                *)

\* the cell that receives raw presses in SpecLive
LiveCells == { FwCellOrder[1] }

\* how many of the waits of LiveWaitOrder send_report meets in SpecLive
NumLiveWaits == 3

\* the clear reads of RWAL before it is found set: none, as many as the
\* timeout allows and more, one less than that, one more
LiveWaitOrder == << 0, RWAL_TIMEOUT, RWAL_TIMEOUT - 1, RWAL_TIMEOUT + 1 >>

LiveWaits == { LiveWaitOrder[i] : i \in 1 .. Min(NumLiveWaits, Len(LiveWaitOrder)) }

LiveInit ==
    /\ ReportIdle /\ DebInit /\ PairIdle /\ HistOff /\ FwIdle /\ OtherIdle
    /\ pc = "init"
    /\ configured = UsbKeyboard_new.configured
    /\ last_report = UsbKeyboard_new.last_report
    /\ tx = NoReport
    /\ call = [ fn |-> "new" ]

\* the SETUP packets of SpecLive: GET_DESCRIPTOR(device), SET_CONFIGURATION(1)
\* and the vendor request that jumps to the bootloader
LivePackets ==
    { Packet(128, 6, 0, 1, 255), Packet(0, 9, 1, 0, 0),
      Packet(64, 255, 0, 0, 0) }

\* usb.poll(&dp)
LivePoll ==
    /\ pc = "poll"
    /\ \E eorsti \in BOOLEAN, a \in PollInputs(LivePackets) :
          LET r == poll(Usb, eorsti, a.rxstpi, a.p, a.txini, a.rxouti)
          IN  /\ configured' = r.u.configured
              /\ last_report' = r.u.last_report
              /\ pc' = After(r.end, "scan")
    /\ UNCHANGED << tx, call, reportVars, debVars, pairVars, histVars, fwVars, otherVars >>

\* let raw_state = matrix::scan(..); let debounced = debouncer.update(&raw_state)
LiveScan ==
    /\ pc = "scan"
    /\ \E raw_state \in RawSnapshots(LiveCells) :
          LET d == update([ state |-> state, counters |-> counters ], raw_state)
          IN  /\ state' = d.state
              /\ counters' = d.counters
    /\ pc' = "report"
    /\ UNCHANGED << configured, last_report, tx, call, reportVars, pairVars,
                    histVars, fwVars, otherVars >>

\* resolve_layer, build_report, usb.send_report(&dp, &report).  call says
\* whether endpoint 1 was writable within the timeout (writable), whether
\* the report was written (wrote), and whether the call before this one had
\* given up on a report it had to send (retry)
LiveReport ==
    /\ pc = "report"
    /\ \E wait \in LiveWaits, rep \in { ReportOf(state) } :
          LET r == send_report(Usb, rep, wait)
          IN  /\ configured' = r.u.configured
              /\ last_report' = r.u.last_report
              /\ tx' = IF r.wrote THEN rep ELSE tx
              /\ call' = [ fn |-> "send_report", wrote |-> r.wrote,
                           writable |-> wait < RWAL_TIMEOUT,
                           gaveup |-> /\ configured /\ rep # last_report
                                      /\ ~r.wrote,
                           retry |-> call.fn = "send_report" /\ call.gaveup ]
    /\ pc' = "poll"
    /\ UNCHANGED << reportVars, debVars, pairVars, histVars, fwVars, otherVars >>

LiveNext == FwUsbInit \/ LivePoll \/ LiveScan \/ LiveReport

\* the firmware is the only thread of the microcontroller: whenever it can
\* take its next step it does
SpecLive == LiveInit /\ [][LiveNext]_vars /\ WF_vars(LiveNext)

\* a loop iteration reaches send_report with endpoint 1 writable within the
\* timeout
WritableCall == pc = "report" /\ pc' = "poll" /\ call'.writable

\* send_report writes a report to endpoint 1
Transmits == pc = "report" /\ pc' = "poll" /\ call'.wrote

\* C39: if from some point on the device stays configured and the debounced
\* key state stays constant, and endpoint 1 is writable at infinitely many
\* of the loop's send_report calls, then eventually the cached last-sent
\* report equals the report built from the current key state for good and
\* no report is transmitted any more.
C39_ReportConverges ==
    (/\ <>[]configured
     /\ <>[][state' = state]_state
     /\ []<><<WritableCall>>_vars)
        => (/\ <>[](last_report = ReportOf(state))
            /\ <>[][~Transmits]_vars)

\* a report that send_report had given up on was written by the next call
C39_Witness ==
    /\ pc = "poll" /\ call.fn = "send_report"
    /\ call.retry /\ call.wrote
    /\ last_report = ReportOf(state) /\ last_report # KeyboardReport_empty

----------------------------------------------------------------------------
(* SpecTool: the Flash command of main from the reading of the firmware    *)
(* file on: read_to_string, parse_hex, flatten_segments, then detect,      *)
(* reboot_to_bootloader, the polls of detect and flash as in SpecCli.      *)
(* src/ergodox-cli/src/main.rs                                             *)

\* how many lines a firmware file of SpecTool has at most
MaxToolLines == 2

\* the lines firmware files are made of in SpecTool: a data record, end of
\* file, a blank line, a record with a wrong checksum, a record of an
\* unsupported type, and a record whose count field exceeds its bytes
ToolLines ==
    { RecLine(Record(2, 0, 0, << 1, 2 >>)),
      RecLine(Record(0, 0, 1, << >>)),
      BlankLine,
      RecLine(<< 2, 0, 0, 0, 1, 2, 252 >>),
      RecLine(Record(0, 0, 3, << >>)),
      RecLine(<< 16, 0, 0, 0, 240 >>) }

ToolInputs == UNION { [ 1 .. n -> ToolLines ] : n \in 1 .. MaxToolLines }

toolFrame == << firmwareVars, mcpVars, twiVars, keymapVars >>

\* (first, a faulty variant that goes on after an error)
after_validation_mutIgnoreError(kind, next) ==
    IF kind = "panic" THEN "panicked" ELSE next

\* parse_hex(..).context(..)? and flatten_segments(..).context(..)?: on Ok
\* main goes on, on Err it returns the error, and a panic ends the process
after_validation(kind, next) ==
    CASE kind = "ok"  -> next
      [] kind = "err" -> "done"
      [] OTHER        -> "panicked"

\* the image flatten_segments returns, as the Vec<u8> handed to flash
ImageData(f) == [ i \in 1 .. Cardinality(DOMAIN f.image) |-> f.image[i - 1] ]

ToolInit ==
    /\ FirmwareIdle /\ McpOff /\ TwiOff /\ KeymapOff
    /\ hpc = "in"
    /\ hin \in ToolInputs
    /\ hout = Unused
    /\ flat = Unused
    /\ fpc = "read"
    /\ fin = Unused
    /\ fk = 0
    /\ xfers = << >>
    /\ fres = Unused
    /\ cli = [ detects |-> 0, first |-> "none", last |-> "none",
               request |-> "none", polls |-> 0 ]

\* fs::read_to_string(&firmware).with_context(..)?
MainRead ==
    /\ fpc = "read"
    /\ \E readable \in BOOLEAN :
          IF readable THEN fpc' = "parse" /\ fres' = fres
          ELSE fpc' = "done" /\ fres' = MainErr("reading")
    /\ UNCHANGED << fin, fk, xfers, cli, hexVars, toolFrame >>

\* let segments = hex::parse_hex(&contents).context("parsing Intel HEX file")?
MainParse ==
    /\ fpc = "parse"
    /\ LET out == parse_hex(hin)
       IN  /\ hout' = out
           /\ fpc' = after_validation(out.kind, "flatten")
           /\ fres' = IF out.kind = "err" THEN MainErr("parsing Intel HEX file")
                      ELSE fres
    /\ hpc' = "parsed"
    /\ UNCHANGED << hin, flat, fin, fk, xfers, cli, toolFrame >>

\* let (base_address, data) =
\*     hex::flatten_segments(&segments).context("flattening HEX segments")?
MainFlatten ==
    /\ fpc = "flatten"
    /\ \E checked \in BOOLEAN :
          LET f == flatten_segments(hout.segments, checked)
          IN  /\ flat' = f
              /\ fpc' = after_validation(f.kind, "main")
              /\ fin' = IF f.kind = "ok"
                        THEN [ base_address |-> f.base, data |-> ImageData(f) ]
                        ELSE fin
              /\ fres' = IF f.kind = "err" THEN MainErr("flattening HEX segments")
                         ELSE fres
    /\ hpc' = "flat"
    /\ UNCHANGED << hin, hout, fk, xfers, cli, toolFrame >>

ToolNext ==
    \/ MainRead \/ MainParse \/ MainFlatten
    \/ MainDetect \/ MainReboot \/ MainPoll
    \/ FlashOpen \/ FlashPage \/ FlashReboot

SpecTool == ToolInit /\ [][ToolNext]_vars

\* parse_hex or flatten_segments has returned an error
ValidationFailed ==
    \/ hpc \in { "parsed", "flat" } /\ hout.kind = "err"
    \/ hpc = "flat" /\ flat.kind = "err"

\* main has called detect or reboot_to_bootloader, or flash has sent a
\* transfer
UsbTouched == cli.detects > 0 \/ cli.request # "none" \/ xfers # << >>

\* C40: when parse_hex or flatten_segments fails, the flash command has
\* ended with that error, detect was not called, no reboot request was made
\* and no transfer was sent; and whenever a USB call has been made, both
\* parse_hex and flatten_segments had returned Ok.
C40_ValidatedBeforeUsb ==
    /\ [](ValidationFailed =>
             /\ fpc = "done" /\ fres.kind = "err"
             /\ fres.why \in { "parsing Intel HEX file", "flattening HEX segments" }
             /\ ~UsbTouched)
    /\ [][ValidationFailed => UNCHANGED << cli, xfers, fres, fpc >>]_vars
    /\ [](UsbTouched => (hpc = "flat" /\ hout.kind = "ok" /\ flat.kind = "ok"))

\* a file holding only an end-of-file record: parse_hex returned no segment
\* and flatten_segments failed
C40_Witness ==
    /\ hpc = "flat" /\ hout.kind = "ok" /\ hout.segments = << >>
    /\ flat.kind = "err"
    /\ fpc = "done" /\ fres = MainErr("flattening HEX segments")
    /\ cli.detects = 0 /\ xfers = << >>

====
